---------------------------- MODULE Spec2Model ----------------------------
(***************************************************************************)
(* A model of gogm: the chess board (piece lists, square table, castling   *)
(* rights, en-passant state), make/unmake, the legal-move generator, the   *)
(* FEN codec, the evaluator and the alpha-beta searcher.                   *)
(*                                                                         *)
(* Conventions.  A Bitboard is written as the set of the squares whose     *)
(* bits are set (bit i <-> square i, 0..63).  A *Piece pointer is a        *)
(* sequence: <<>> is nil, <<p>> points to p.  Slices are sequences.        *)
(* Evaluations are kept in hundredths (1.0 pawn = 100), +/-Inf as +/-INF.  *)
(* A panic or log.Fatalf aborts the process: it is recorded in the board's *)
(* fault field and every later operation leaves such a board alone.        *)
(***************************************************************************)
EXTENDS Integers, Sequences, FiniteSets, TLC

\* ------------------------------------------------------------------------
\* Piece kinds, files, ranks, squares
\* ------------------------------------------------------------------------
King == 0
Queen == 1
Bishop == 2
Knight == 3
Rook == 4
Pawn == 5

FileA == 0
FileB == 1
FileC == 2
FileD == 3
FileE == 4
FileF == 5
FileG == 6
FileH == 7

Rank8 == 0
Rank7 == 1
Rank6 == 2
Rank5 == 3
Rank4 == 4
Rank3 == 5
Rank2 == 6
Rank1 == 7

A8 == 0
H8 == 7
A2 == 48
A1 == 56
B1 == 57
H1 == 63

Squares == 0..63

\* SquareAt with the file shifted instead of the rank
SquareAtFileMajor(file, rank) == ((((file % 256) * 8) % 256) + (rank % 256)) % 256

\* Square(uint8(rank)<<3 + uint8(file)): 8-bit arithmetic
SquareAt(file, rank) == ((((rank % 256) * 8) % 256) + (file % 256)) % 256

File(sq) == sq % 8

Rank(sq) == sq \div 8

\* (Square, bool): <<A1, FALSE>> when the offset leaves the board
Offset(sq, horizontal, vertical) ==
  LET fileIndex == File(sq) + horizontal
      rankIndex == Rank(sq) + vertical
  IN IF fileIndex >= 0 /\ fileIndex < 8 /\ rankIndex >= 0 /\ rankIndex < 8
       THEN <<SquareAt(fileIndex, rankIndex), TRUE>>
       ELSE <<A1, FALSE>>

signum(x) == IF x < 0 THEN -1 ELSE IF x = 0 THEN 0 ELSE 1

\* ------------------------------------------------------------------------
\* Bitboards
\* ------------------------------------------------------------------------
EmptyBitboard == {}

\* 1 << sq is 0 for sq >= 64
BitOf(sq) == IF sq < 64 THEN {sq} ELSE {}

Get(bitboard, sq) == (bitboard \cap BitOf(sq)) /= EmptyBitboard

Set(bitboard, sq) == bitboard \cup BitOf(sq)

Unset(bitboard, sq) == bitboard \ BitOf(sq)

IntersectsSquare(bitboard, sq) == (bitboard \cap Set(EmptyBitboard, sq)) /= EmptyBitboard

\* the set bits in ascending order (trailing-zero iteration)
AllSquaresSeq == [i \in 1..64 |-> i - 1]

\* the elements of a slice
Range(seq) == {seq[i] : i \in 1..Len(seq)}

BitsAscending(bitboard) == SelectSeq(AllSquaresSeq, LAMBDA s : s \in bitboard)

\* ------------------------------------------------------------------------
\* Precomputed attack tables
\* ------------------------------------------------------------------------
\* src/chess/movegen.go:544 (bit i of entry sq written as square i of a set; tuple index sq+1)
whitePawnAttackSets ==
  <<
    {}, {}, {}, {}, {}, {}, {}, {},
    {1}, {0,2}, {1,3}, {2,4}, {3,5}, {4,6}, {5,7}, {6},
    {9}, {8,10}, {9,11}, {10,12}, {11,13}, {12,14}, {13,15}, {14},
    {17}, {16,18}, {17,19}, {18,20}, {19,21}, {20,22}, {21,23}, {22},
    {25}, {24,26}, {25,27}, {26,28}, {27,29}, {28,30}, {29,31}, {30},
    {33}, {32,34}, {33,35}, {34,36}, {35,37}, {36,38}, {37,39}, {38},
    {41}, {40,42}, {41,43}, {42,44}, {43,45}, {44,46}, {45,47}, {46},
    {49}, {48,50}, {49,51}, {50,52}, {51,53}, {52,54}, {53,55}, {54}
  >>

\* src/chess/movegen.go:545 (bit i of entry sq written as square i of a set; tuple index sq+1)
blackPawnAttackSets ==
  <<
    {9}, {8,10}, {9,11}, {10,12}, {11,13}, {12,14}, {13,15}, {14},
    {17}, {16,18}, {17,19}, {18,20}, {19,21}, {20,22}, {21,23}, {22},
    {25}, {24,26}, {25,27}, {26,28}, {27,29}, {28,30}, {29,31}, {30},
    {33}, {32,34}, {33,35}, {34,36}, {35,37}, {36,38}, {37,39}, {38},
    {41}, {40,42}, {41,43}, {42,44}, {43,45}, {44,46}, {45,47}, {46},
    {49}, {48,50}, {49,51}, {50,52}, {51,53}, {52,54}, {53,55}, {54},
    {57}, {56,58}, {57,59}, {58,60}, {59,61}, {60,62}, {61,63}, {62},
    {}, {}, {}, {}, {}, {}, {}, {}
  >>

\* src/chess/movegen.go:546 (bit i of entry sq written as square i of a set; tuple index sq+1)
knightAttackSets ==
  <<
    {10,17}, {11,16,18}, {8,12,17,19}, {9,13,18,20}, {10,14,19,21}, {11,15,20,22}, {12,21,23}, {13,22},
    {2,18,25}, {3,19,24,26}, {0,4,16,20,25,27}, {1,5,17,21,26,28}, {2,6,18,22,27,29}, {3,7,19,23,28,30}, {4,20,29,31}, {5,21,30},
    {1,10,26,33}, {0,2,11,27,32,34}, {1,3,8,12,24,28,33,35}, {2,4,9,13,25,29,34,36}, {3,5,10,14,26,30,35,37}, {4,6,11,15,27,31,36,38}, {5,7,12,28,37,39}, {6,13,29,38},
    {9,18,34,41}, {8,10,19,35,40,42}, {9,11,16,20,32,36,41,43}, {10,12,17,21,33,37,42,44}, {11,13,18,22,34,38,43,45}, {12,14,19,23,35,39,44,46}, {13,15,20,36,45,47}, {14,21,37,46},
    {17,26,42,49}, {16,18,27,43,48,50}, {17,19,24,28,40,44,49,51}, {18,20,25,29,41,45,50,52}, {19,21,26,30,42,46,51,53}, {20,22,27,31,43,47,52,54}, {21,23,28,44,53,55}, {22,29,45,54},
    {25,34,50,57}, {24,26,35,51,56,58}, {25,27,32,36,48,52,57,59}, {26,28,33,37,49,53,58,60}, {27,29,34,38,50,54,59,61}, {28,30,35,39,51,55,60,62}, {29,31,36,52,61,63}, {30,37,53,62},
    {33,42,58}, {32,34,43,59}, {33,35,40,44,56,60}, {34,36,41,45,57,61}, {35,37,42,46,58,62}, {36,38,43,47,59,63}, {37,39,44,60}, {38,45,61},
    {41,50}, {40,42,51}, {41,43,48,52}, {42,44,49,53}, {43,45,50,54}, {44,46,51,55}, {45,47,52}, {46,53}
  >>

\* src/chess/movegen.go:547 (bit i of entry sq written as square i of a set; tuple index sq+1)
kingAttackSets ==
  <<
    {1,8,9}, {0,2,8,9,10}, {1,3,9,10,11}, {2,4,10,11,12}, {3,5,11,12,13}, {4,6,12,13,14}, {5,7,13,14,15}, {6,14,15},
    {0,1,9,16,17}, {0,1,2,8,10,16,17,18}, {1,2,3,9,11,17,18,19}, {2,3,4,10,12,18,19,20}, {3,4,5,11,13,19,20,21}, {4,5,6,12,14,20,21,22}, {5,6,7,13,15,21,22,23}, {6,7,14,22,23},
    {8,9,17,24,25}, {8,9,10,16,18,24,25,26}, {9,10,11,17,19,25,26,27}, {10,11,12,18,20,26,27,28}, {11,12,13,19,21,27,28,29}, {12,13,14,20,22,28,29,30}, {13,14,15,21,23,29,30,31}, {14,15,22,30,31},
    {16,17,25,32,33}, {16,17,18,24,26,32,33,34}, {17,18,19,25,27,33,34,35}, {18,19,20,26,28,34,35,36}, {19,20,21,27,29,35,36,37}, {20,21,22,28,30,36,37,38}, {21,22,23,29,31,37,38,39}, {22,23,30,38,39},
    {24,25,33,40,41}, {24,25,26,32,34,40,41,42}, {25,26,27,33,35,41,42,43}, {26,27,28,34,36,42,43,44}, {27,28,29,35,37,43,44,45}, {28,29,30,36,38,44,45,46}, {29,30,31,37,39,45,46,47}, {30,31,38,46,47},
    {32,33,41,48,49}, {32,33,34,40,42,48,49,50}, {33,34,35,41,43,49,50,51}, {34,35,36,42,44,50,51,52}, {35,36,37,43,45,51,52,53}, {36,37,38,44,46,52,53,54}, {37,38,39,45,47,53,54,55}, {38,39,46,54,55},
    {40,41,49,56,57}, {40,41,42,48,50,56,57,58}, {41,42,43,49,51,57,58,59}, {42,43,44,50,52,58,59,60}, {43,44,45,51,53,59,60,61}, {44,45,46,52,54,60,61,62}, {45,46,47,53,55,61,62,63}, {46,47,54,62,63},
    {48,49,57}, {48,49,50,56,58}, {49,50,51,57,59}, {50,51,52,58,60}, {51,52,53,59,61}, {52,53,54,60,62}, {53,54,55,61,63}, {54,55,62}
  >>

\* src/chess/movegen.go:550 (bit i of entry sq written as square i of a set; tuple index sq+1)
unobstructedBishopAttacks ==
  <<
    {9,18,27,36,45,54,63}, {8,10,19,28,37,46,55}, {9,11,16,20,29,38,47}, {10,12,17,21,24,30,39}, {11,13,18,22,25,31,32}, {12,14,19,23,26,33,40}, {13,15,20,27,34,41,48}, {14,21,28,35,42,49,56},
    {1,17,26,35,44,53,62}, {0,2,16,18,27,36,45,54,63}, {1,3,17,19,24,28,37,46,55}, {2,4,18,20,25,29,32,38,47}, {3,5,19,21,26,30,33,39,40}, {4,6,20,22,27,31,34,41,48}, {5,7,21,23,28,35,42,49,56}, {6,22,29,36,43,50,57},
    {2,9,25,34,43,52,61}, {3,8,10,24,26,35,44,53,62}, {0,4,9,11,25,27,32,36,45,54,63}, {1,5,10,12,26,28,33,37,40,46,55}, {2,6,11,13,27,29,34,38,41,47,48}, {3,7,12,14,28,30,35,39,42,49,56}, {4,13,15,29,31,36,43,50,57}, {5,14,30,37,44,51,58},
    {3,10,17,33,42,51,60}, {4,11,16,18,32,34,43,52,61}, {5,8,12,17,19,33,35,40,44,53,62}, {0,6,9,13,18,20,34,36,41,45,48,54,63}, {1,7,10,14,19,21,35,37,42,46,49,55,56}, {2,11,15,20,22,36,38,43,47,50,57}, {3,12,21,23,37,39,44,51,58}, {4,13,22,38,45,52,59},
    {4,11,18,25,41,50,59}, {5,12,19,24,26,40,42,51,60}, {6,13,16,20,25,27,41,43,48,52,61}, {7,8,14,17,21,26,28,42,44,49,53,56,62}, {0,9,15,18,22,27,29,43,45,50,54,57,63}, {1,10,19,23,28,30,44,46,51,55,58}, {2,11,20,29,31,45,47,52,59}, {3,12,21,30,46,53,60},
    {5,12,19,26,33,49,58}, {6,13,20,27,32,34,48,50,59}, {7,14,21,24,28,33,35,49,51,56,60}, {15,16,22,25,29,34,36,50,52,57,61}, {8,17,23,26,30,35,37,51,53,58,62}, {0,9,18,27,31,36,38,52,54,59,63}, {1,10,19,28,37,39,53,55,60}, {2,11,20,29,38,54,61},
    {6,13,20,27,34,41,57}, {7,14,21,28,35,40,42,56,58}, {15,22,29,32,36,41,43,57,59}, {23,24,30,33,37,42,44,58,60}, {16,25,31,34,38,43,45,59,61}, {8,17,26,35,39,44,46,60,62}, {0,9,18,27,36,45,47,61,63}, {1,10,19,28,37,46,62},
    {7,14,21,28,35,42,49}, {15,22,29,36,43,48,50}, {23,30,37,40,44,49,51}, {31,32,38,41,45,50,52}, {24,33,39,42,46,51,53}, {16,25,34,43,47,52,54}, {8,17,26,35,44,53,55}, {0,9,18,27,36,45,54}
  >>

\* src/chess/movegen.go:551 (bit i of entry sq written as square i of a set; tuple index sq+1)
unobstructedRookAttacks ==
  <<
    {1,2,3,4,5,6,7,8,16,24,32,40,48,56}, {0,2,3,4,5,6,7,9,17,25,33,41,49,57}, {0,1,3,4,5,6,7,10,18,26,34,42,50,58}, {0,1,2,4,5,6,7,11,19,27,35,43,51,59}, {0,1,2,3,5,6,7,12,20,28,36,44,52,60}, {0,1,2,3,4,6,7,13,21,29,37,45,53,61}, {0,1,2,3,4,5,7,14,22,30,38,46,54,62}, {0,1,2,3,4,5,6,15,23,31,39,47,55,63},
    {0,9,10,11,12,13,14,15,16,24,32,40,48,56}, {1,8,10,11,12,13,14,15,17,25,33,41,49,57}, {2,8,9,11,12,13,14,15,18,26,34,42,50,58}, {3,8,9,10,12,13,14,15,19,27,35,43,51,59}, {4,8,9,10,11,13,14,15,20,28,36,44,52,60}, {5,8,9,10,11,12,14,15,21,29,37,45,53,61}, {6,8,9,10,11,12,13,15,22,30,38,46,54,62}, {7,8,9,10,11,12,13,14,23,31,39,47,55,63},
    {0,8,17,18,19,20,21,22,23,24,32,40,48,56}, {1,9,16,18,19,20,21,22,23,25,33,41,49,57}, {2,10,16,17,19,20,21,22,23,26,34,42,50,58}, {3,11,16,17,18,20,21,22,23,27,35,43,51,59}, {4,12,16,17,18,19,21,22,23,28,36,44,52,60}, {5,13,16,17,18,19,20,22,23,29,37,45,53,61}, {6,14,16,17,18,19,20,21,23,30,38,46,54,62}, {7,15,16,17,18,19,20,21,22,31,39,47,55,63},
    {0,8,16,25,26,27,28,29,30,31,32,40,48,56}, {1,9,17,24,26,27,28,29,30,31,33,41,49,57}, {2,10,18,24,25,27,28,29,30,31,34,42,50,58}, {3,11,19,24,25,26,28,29,30,31,35,43,51,59}, {4,12,20,24,25,26,27,29,30,31,36,44,52,60}, {5,13,21,24,25,26,27,28,30,31,37,45,53,61}, {6,14,22,24,25,26,27,28,29,31,38,46,54,62}, {7,15,23,24,25,26,27,28,29,30,39,47,55,63},
    {0,8,16,24,33,34,35,36,37,38,39,40,48,56}, {1,9,17,25,32,34,35,36,37,38,39,41,49,57}, {2,10,18,26,32,33,35,36,37,38,39,42,50,58}, {3,11,19,27,32,33,34,36,37,38,39,43,51,59}, {4,12,20,28,32,33,34,35,37,38,39,44,52,60}, {5,13,21,29,32,33,34,35,36,38,39,45,53,61}, {6,14,22,30,32,33,34,35,36,37,39,46,54,62}, {7,15,23,31,32,33,34,35,36,37,38,47,55,63},
    {0,8,16,24,32,41,42,43,44,45,46,47,48,56}, {1,9,17,25,33,40,42,43,44,45,46,47,49,57}, {2,10,18,26,34,40,41,43,44,45,46,47,50,58}, {3,11,19,27,35,40,41,42,44,45,46,47,51,59}, {4,12,20,28,36,40,41,42,43,45,46,47,52,60}, {5,13,21,29,37,40,41,42,43,44,46,47,53,61}, {6,14,22,30,38,40,41,42,43,44,45,47,54,62}, {7,15,23,31,39,40,41,42,43,44,45,46,55,63},
    {0,8,16,24,32,40,49,50,51,52,53,54,55,56}, {1,9,17,25,33,41,48,50,51,52,53,54,55,57}, {2,10,18,26,34,42,48,49,51,52,53,54,55,58}, {3,11,19,27,35,43,48,49,50,52,53,54,55,59}, {4,12,20,28,36,44,48,49,50,51,53,54,55,60}, {5,13,21,29,37,45,48,49,50,51,52,54,55,61}, {6,14,22,30,38,46,48,49,50,51,52,53,55,62}, {7,15,23,31,39,47,48,49,50,51,52,53,54,63},
    {0,8,16,24,32,40,48,57,58,59,60,61,62,63}, {1,9,17,25,33,41,49,56,58,59,60,61,62,63}, {2,10,18,26,34,42,50,56,57,59,60,61,62,63}, {3,11,19,27,35,43,51,56,57,58,60,61,62,63}, {4,12,20,28,36,44,52,56,57,58,59,61,62,63}, {5,13,21,29,37,45,53,56,57,58,59,60,62,63}, {6,14,22,30,38,46,54,56,57,58,59,60,61,63}, {7,15,23,31,39,47,55,56,57,58,59,60,61,62}
  >>

\* src/chess/movegen.go:537 (bit i of entry sq written as square i of a set; tuple index sq+1)
rookRelevantOccupancyMasks ==
  <<
    {1,2,3,4,5,6,8,16,24,32,40,48}, {2,3,4,5,6,9,17,25,33,41,49}, {1,3,4,5,6,10,18,26,34,42,50}, {1,2,4,5,6,11,19,27,35,43,51}, {1,2,3,5,6,12,20,28,36,44,52}, {1,2,3,4,6,13,21,29,37,45,53}, {1,2,3,4,5,14,22,30,38,46,54}, {1,2,3,4,5,6,15,23,31,39,47,55},
    {9,10,11,12,13,14,16,24,32,40,48}, {10,11,12,13,14,17,25,33,41,49}, {9,11,12,13,14,18,26,34,42,50}, {9,10,12,13,14,19,27,35,43,51}, {9,10,11,13,14,20,28,36,44,52}, {9,10,11,12,14,21,29,37,45,53}, {9,10,11,12,13,22,30,38,46,54}, {9,10,11,12,13,14,23,31,39,47,55},
    {8,17,18,19,20,21,22,24,32,40,48}, {9,18,19,20,21,22,25,33,41,49}, {10,17,19,20,21,22,26,34,42,50}, {11,17,18,20,21,22,27,35,43,51}, {12,17,18,19,21,22,28,36,44,52}, {13,17,18,19,20,22,29,37,45,53}, {14,17,18,19,20,21,30,38,46,54}, {15,17,18,19,20,21,22,31,39,47,55},
    {8,16,25,26,27,28,29,30,32,40,48}, {9,17,26,27,28,29,30,33,41,49}, {10,18,25,27,28,29,30,34,42,50}, {11,19,25,26,28,29,30,35,43,51}, {12,20,25,26,27,29,30,36,44,52}, {13,21,25,26,27,28,30,37,45,53}, {14,22,25,26,27,28,29,38,46,54}, {15,23,25,26,27,28,29,30,39,47,55},
    {8,16,24,33,34,35,36,37,38,40,48}, {9,17,25,34,35,36,37,38,41,49}, {10,18,26,33,35,36,37,38,42,50}, {11,19,27,33,34,36,37,38,43,51}, {12,20,28,33,34,35,37,38,44,52}, {13,21,29,33,34,35,36,38,45,53}, {14,22,30,33,34,35,36,37,46,54}, {15,23,31,33,34,35,36,37,38,47,55},
    {8,16,24,32,41,42,43,44,45,46,48}, {9,17,25,33,42,43,44,45,46,49}, {10,18,26,34,41,43,44,45,46,50}, {11,19,27,35,41,42,44,45,46,51}, {12,20,28,36,41,42,43,45,46,52}, {13,21,29,37,41,42,43,44,46,53}, {14,22,30,38,41,42,43,44,45,54}, {15,23,31,39,41,42,43,44,45,46,55},
    {8,16,24,32,40,49,50,51,52,53,54}, {9,17,25,33,41,50,51,52,53,54}, {10,18,26,34,42,49,51,52,53,54}, {11,19,27,35,43,49,50,52,53,54}, {12,20,28,36,44,49,50,51,53,54}, {13,21,29,37,45,49,50,51,52,54}, {14,22,30,38,46,49,50,51,52,53}, {15,23,31,39,47,49,50,51,52,53,54},
    {8,16,24,32,40,48,57,58,59,60,61,62}, {9,17,25,33,41,49,58,59,60,61,62}, {10,18,26,34,42,50,57,59,60,61,62}, {11,19,27,35,43,51,57,58,60,61,62}, {12,20,28,36,44,52,57,58,59,61,62}, {13,21,29,37,45,53,57,58,59,60,62}, {14,22,30,38,46,54,57,58,59,60,61}, {15,23,31,39,47,55,57,58,59,60,61,62}
  >>

\* src/chess/movegen.go:541 (bit i of entry sq written as square i of a set; tuple index sq+1)
bishopRelevantOccupancyMasks ==
  <<
    {9,18,27,36,45,54}, {10,19,28,37,46}, {9,11,20,29,38}, {10,12,17,21,30}, {11,13,18,22,25}, {12,14,19,26,33}, {13,20,27,34,41}, {14,21,28,35,42,49},
    {17,26,35,44,53}, {18,27,36,45,54}, {17,19,28,37,46}, {18,20,25,29,38}, {19,21,26,30,33}, {20,22,27,34,41}, {21,28,35,42,49}, {22,29,36,43,50},
    {9,25,34,43,52}, {10,26,35,44,53}, {9,11,25,27,36,45,54}, {10,12,26,28,33,37,46}, {11,13,27,29,34,38,41}, {12,14,28,30,35,42,49}, {13,29,36,43,50}, {14,30,37,44,51},
    {10,17,33,42,51}, {11,18,34,43,52}, {12,17,19,33,35,44,53}, {9,13,18,20,34,36,41,45,54}, {10,14,19,21,35,37,42,46,49}, {11,20,22,36,38,43,50}, {12,21,37,44,51}, {13,22,38,45,52},
    {11,18,25,41,50}, {12,19,26,42,51}, {13,20,25,27,41,43,52}, {14,17,21,26,28,42,44,49,53}, {9,18,22,27,29,43,45,50,54}, {10,19,28,30,44,46,51}, {11,20,29,45,52}, {12,21,30,46,53},
    {12,19,26,33,49}, {13,20,27,34,50}, {14,21,28,33,35,49,51}, {22,25,29,34,36,50,52}, {17,26,30,35,37,51,53}, {9,18,27,36,38,52,54}, {10,19,28,37,53}, {11,20,29,38,54},
    {13,20,27,34,41}, {14,21,28,35,42}, {22,29,36,41,43}, {30,33,37,42,44}, {25,34,38,43,45}, {17,26,35,44,46}, {9,18,27,36,45}, {10,19,28,37,46},
    {14,21,28,35,42,49}, {22,29,36,43,50}, {30,37,44,49,51}, {38,41,45,50,52}, {33,42,46,51,53}, {25,34,43,52,54}, {17,26,35,44,53}, {9,18,27,36,45,54}
  >>

\* ------------------------------------------------------------------------
\* Sliding attacks
\* ------------------------------------------------------------------------
RECURSIVE rayBitboard(_, _, _, _)
rayBitboard(square, occupancyBitboard, offsetH, offsetV) ==
  LET o == Offset(square, offsetH, offsetV)
      sq == o[1]
  IN IF ~o[2] THEN EmptyBitboard
     ELSE IF Get(occupancyBitboard, sq) THEN Set(EmptyBitboard, sq)
     ELSE Set(rayBitboard(sq, occupancyBitboard, offsetH, offsetV), sq)

bishopAttacks(square, occupancyBitboard) ==
  rayBitboard(square, occupancyBitboard, -1, -1) \cup
  rayBitboard(square, occupancyBitboard, 1, -1) \cup
  rayBitboard(square, occupancyBitboard, -1, 1) \cup
  rayBitboard(square, occupancyBitboard, 1, 1)

rookAttacks(square, occupancyBitboard) ==
  rayBitboard(square, occupancyBitboard, -1, 0) \cup
  rayBitboard(square, occupancyBitboard, 1, 0) \cup
  rayBitboard(square, occupancyBitboard, 0, 1) \cup
  rayBitboard(square, occupancyBitboard, 0, -1)

\* SlidingAttackTable.GetAttackSet on the rook table: the entry stored under
\* the key of the relevant occupancy is the value CreateSlidingAttackTable
\* wrote for it, attackSetGenerator(sq, relevantOccupancyBitboard)
RookGetAttackSet(sq, allPiecesBitboard) ==
  LET relevantOccupancyBitboard == allPiecesBitboard \cap rookRelevantOccupancyMasks[sq + 1]
  IN rookAttacks(sq, relevantOccupancyBitboard)

\* SlidingAttackTable.GetAttackSet on the bishop table
BishopGetAttackSet(sq, allPiecesBitboard) ==
  LET relevantOccupancyBitboard == allPiecesBitboard \cap bishopRelevantOccupancyMasks[sq + 1]
  IN bishopAttacks(sq, relevantOccupancyBitboard)

\* ------------------------------------------------------------------------
\* Magic tables
\* ------------------------------------------------------------------------
\* src/chess/movegen.go:535 (bit i of entry sq written as element i of a set; tuple index sq+1)
rookMagicNumbers ==
  <<
    {0,1,4,6,11,15,30,37,55,63}, {12,29,32,35,38,54,56,58}, {9,11,17,21,30,31,39,44,57,58}, {12,18,27,30,40,45,56,57,59}, {1,2,16,18,20,28,43,56}, {3,9,10,21,28,42,44,47,58,59,61}, {3,10,12,15,33,40,57,60}, {7,14,16,18,21,24,40,43,55,62},
    {5,11,15,30,47,48,53,62}, {9,16,21,31,38,49,63}, {0,12,23,37,38,47,48,55}, {0,11,14,23,26,36,47,58}, {7,18,35,47,54}, {4,10,19,21,33,35,49,54,62}, {0,11,14,15,18,33,49,59}, {0,1,5,17,22,26,31,48,53,55},
    {5,6,22,26,27,39,47,62}, {2,6,9,21,22,23,26,38,43,52,54,59,61}, {1,8,9,21,28,40,46,60}, {3,5,13,28,40,42,48,54,55,58}, {10,27,29,39,40,47,55,56}, {3,4,9,13,26,28,40,48}, {1,7,12,16,27,42,43,53,59,61}, {5,11,14,16,22,37,50},
    {3,14,21,31,33,47,54}, {12,14,15,16,30,45,54}, {7,20,31,35,45,46,48,60}, {12,23,31,43,56}, {8,19,20,32,34,36,44,46,49,50}, {7,18,21,31,41,45,63}, {3,4,8,11,20,34,41,60,62}, {7,16,25,31,44,50,63},
    {1,5,23,28,31,46,51,55,56,60,62}, {6,10,22,36,45,57,58,60}, {12,23,24,37,39,47,49}, {2,3,13,24,32,44,49,52}, {0,8,10,12,24,28,30,43,46,56,57,61,63}, {10,12,23,33,47,48,55,58,59,62}, {1,5,8,10,26,28,35,37,44,46,51,63}, {7,22,23,24,25,36,37,49,53,63},
    {15,23,38,40,42,45,47,56}, {5,16,24,31,46,54,58}, {6,16,29,30,40,44,59}, {3,6,16,24,36,45,55,61,62}, {4,16,24,35,40,42,48}, {7,15,25,42,46,49,55,57}, {3,17,20,24,34,49,55,57}, {2,3,17,23,28,32,37},
    {9,17,21,24,25,32,35,39,46,52,53,55,58}, {7,9,22,31,45,47,55,57,63}, {7,9,21,23,25,31,36,40,52,54,61}, {7,20,35,47}, {7,8,19,24,26,39,50,52}, {9,19,23,26,28,31,36,49,50,56,60,63}, {8,10,25,34,48,62}, {6,15,23,35,37,40,41,53,59},
    {0,3,8,23,24,30,37,38,41,44,56}, {0,4,13,23,30,32,40,54,58,59}, {1,4,7,8,15,21,30,35,49,58,62}, {0,8,20,23,29,30,32,35,42,45,53,58,60}, {1,12,19,26,37,40,49,53,56,60}, {0,5,11,17,20,34,48,55}, {2,7,9,16,28,33,43}, {1,2,7,16,22,34,37,41,46,50,63}
  >>

\* src/chess/movegen.go:536 (tuple index sq+1)
rookRelevantBits ==
  <<
    12, 11, 11, 11, 11, 11, 11, 12,
    11, 10, 10, 10, 10, 10, 10, 12,
    11, 10, 10, 10, 10, 10, 10, 12,
    11, 10, 10, 10, 10, 10, 10, 12,
    11, 10, 10, 10, 10, 10, 10, 12,
    11, 10, 10, 10, 10, 10, 10, 12,
    11, 10, 10, 10, 10, 10, 10, 12,
    12, 11, 11, 11, 11, 11, 11, 12
  >>

\* src/chess/movegen.go:539 (bit i of entry sq written as element i of a set; tuple index sq+1)
bishopMagicNumbers ==
  <<
    {5,18,24,34,40,41,53,55,60}, {1,12,14,18,26,34,42,49,50,52,62}, {1,9,21,28,33,40,46,52,56,59}, {4,14,15,17,25,31,33,34,38,39,46,50,52,62}, {3,6,10,34,40,42,50,60,62,63}, {11,16,23,27,36,40,43,49}, {4,10,19,29,34,35,42,46,53,58,62}, {4,11,19,20,28,30,38,48,61},
    {4,6,8,19,23,27,35,43,53,59}, {9,16,26,27,28,33,34,38,40,41,54}, {5,13,19,23,26,34,37,39,44,45,48,56}, {0,5,6,7,19,23,34,36,42,45,60,61}, {0,4,11,21,28,33,34,41,44,55,63}, {6,11,18,20,27,28,36,40,50,61}, {13,21,25,26,31,33,40,43,47,48,51,57,58}, {13,17,25,33,37,44,46,48,56,59},
    {8,16,18,27,29,32,38,39,41,45,49,53,60}, {7,13,18,28,35,36,39,46,49}, {1,9,11,13,21,34,51,56,59}, {2,4,14,25,28,35,36,38,40,47,48}, {0,21,23,25,31,36,40,50,59}, {3,4,11,20,23,29,39,49,60,63}, {5,6,10,19,23,25,27,32,34,38,50,55,62}, {4,6,12,18,23,25,26,29,32,40,47},
    {12,17,27,28,32,38,45,51,55}, {0,1,6,8,9,19,22,25,26,32,43,44,52,53}, {6,13,14,16,19,27,28,34,35,44,46,58}, {1,3,15,27,29,30,39,49,59,63}, {2,13,23,26,42,47,56,57}, {7,20,25,28,40,48,51,58}, {12,13,17,23,31,38,42,50,52,61,62}, {8,16,25,26,37,49,50},
    {13,20,27,37,39,42,48,54,60}, {6,9,21,30,35,40,43,50,59}, {0,10,11,17,19,20,34,43,44,50,51,53,60}, {9,19,31,39,41,43,52,53,57}, {7,13,20,33,41,54,61}, {8,14,33,38,52}, {0,3,11,16,31,38,42,48,49,52,58}, {1,7,16,18,23,29,40,41,51,54,55,60},
    {10,14,20,27,36,44,49,53,56,62}, {10,16,19,28,29,31,34,43,46}, {5,12,24,25,32,37,48,52,53}, {8,12,27,30,32,40}, {10,12,17,25,27,28,32,33,42,54,57,58}, {6,10,13,21,36,43,53,61}, {2,7,9,13,15,25,27,33,40,53}, {9,11,12,19,21,24,33,41,49,57,62},
    {4,22,25,34,42,47,60,61}, {0,11,21,27,33,39,42,45,48,50,53,62}, {1,4,10,19,23,28,34,36,39,41,43,44,51,54,60,61}, {17,25,30,41,47,54}, {1,16,22,23,29,37,57,61}, {13,17,23,25,29,37,39,45}, {16,26,28,31,32,38,45,51}, {5,8,12,17,19,20,22,34,41,51,61},
    {14,19,23,24,26,32,34,38,39,40,48,52,55,63}, {13,19,23,28,31,33,34,39}, {5,11,15,20,24,33,36,58}, {10,18,23,27,32,45,47,48,54,59,61,62}, {0,9,17,24,28,35,38,52,58}, {1,3,7,8,14,20,26,37,45,52,56,57}, {0,2,3,10,16,27,29,35,42,60}, {1,3,4,17,23,27,33,34,43,54,56,59}
  >>

\* src/chess/movegen.go:540 (tuple index sq+1)
bishopRelevantBits ==
  <<
    6, 5, 5, 5, 5, 5, 5, 6,
    5, 5, 5, 5, 5, 5, 5, 5,
    5, 5, 7, 7, 7, 7, 5, 5,
    5, 5, 7, 9, 9, 7, 5, 5,
    5, 5, 7, 9, 9, 7, 5, 5,
    5, 5, 7, 7, 7, 7, 5, 5,
    5, 5, 5, 5, 5, 5, 5, 5,
    6, 5, 5, 5, 5, 5, 5, 6
  >>

\* a uint64 is multiplied in 5 limbs of 13 bits, lowest first: 2^13
LimbSize == 8192

\* the number whose bits lo..hi are the elements lo..hi of the set
RECURSIVE Pack(_, _, _)
Pack(bitboard, lo, hi) ==
  IF lo > hi THEN 0
  ELSE (IF lo \in bitboard THEN 1 ELSE 0) + 2 * Pack(bitboard, lo + 1, hi)

Limbs(bitboard) ==
  <<Pack(bitboard, 0, 12), Pack(bitboard, 13, 25), Pack(bitboard, 26, 38),
    Pack(bitboard, 39, 51), Pack(bitboard, 52, 63)>>

\* bits 52..63 of a * b, with the carries out of the lower limbs left out
MulTopNoCarry(a, b) ==
  (a[1] * b[5] + a[2] * b[4] + a[3] * b[3] + a[4] * b[2] + a[5] * b[1]) % 4096

\* bits 52..63 of the unsigned 64-bit product a * b (overflow discarded)
MulTop(a, b) ==
  LET c1 == a[1] * b[1]
      c2 == a[1] * b[2] + a[2] * b[1] + (c1 \div LimbSize)
      c3 == a[1] * b[3] + a[2] * b[2] + a[3] * b[1] + (c2 \div LimbSize)
      c4 == a[1] * b[4] + a[2] * b[3] + a[3] * b[2] + a[4] * b[1] + (c3 \div LimbSize)
      c5 == a[1] * b[5] + a[2] * b[4] + a[3] * b[3] + a[4] * b[2] + a[5] * b[1]
              + (c4 \div LimbSize)
  IN c5 % 4096

\* (relevantOccupancyBitboard * magic) >> (64 - relevantBits), for relevantBits in 1..12
SlidingKey(relevantOccupancyBitboard, magic, relevantBits) ==
  MulTop(Limbs(relevantOccupancyBitboard), Limbs(magic)) \div (2 ^ (12 - relevantBits))

\* allRelevantOccupacyBitboards with half the combinations: 1 << (numSetBits - 1)
allRelevantOccupacyBitboardsHalf(bitboard) ==
  LET setBitsIndices == BitsAscending(bitboard)
      numSetBits == Len(setBitsIndices)
      numCombinations == 2 ^ (numSetBits - 1)
  IN [combination \in 0..(numCombinations - 1) |->
       {setBitsIndices[index + 1] :
          index \in {i \in 0..(numSetBits - 1) : (combination \div (2 ^ i)) % 2 = 1}}]

\* the slice of bitboards, indexed from 0 by the combination number
allRelevantOccupacyBitboards(bitboard) ==
  LET setBitsIndices == BitsAscending(bitboard)
      numSetBits == Len(setBitsIndices)
      numCombinations == 2 ^ numSetBits
  IN [combination \in 0..(numCombinations - 1) |->
       {setBitsIndices[index + 1] :
          index \in {i \in 0..(numSetBits - 1) : (combination \div (2 ^ i)) % 2 = 1}}]

\* the writes of combinations lo..hi into attackSetBitboards[squareIndex],
\* in the order of the loop (a slice without entries takes no write)
\* the call attackSetGenerator(squareIndex, bitboard); the generator passed is
\* named by a string, "rookAttacks" or "bishopAttacks"
AttackSetGenerated(attackSetGenerator, squareIndex, bitboard) ==
  IF attackSetGenerator = "rookAttacks"
    THEN rookAttacks(squareIndex, bitboard)
    ELSE bishopAttacks(squareIndex, bitboard)

RECURSIVE SlidingWrites(_, _, _, _, _, _, _, _)
SlidingWrites(attackSetGenerator, squareIndex, magic, relevantBits, occupancies, lo, hi, entries) ==
  IF DOMAIN entries = {} THEN entries
  ELSE IF lo = hi
    THEN [entries EXCEPT ![SlidingKey(occupancies[lo], magic, relevantBits)] =
                           AttackSetGenerated(attackSetGenerator, squareIndex, occupancies[lo])]
  ELSE SlidingWrites(attackSetGenerator, squareIndex, magic, relevantBits, occupancies,
                     ((lo + hi) \div 2) + 1, hi,
                     SlidingWrites(attackSetGenerator, squareIndex, magic, relevantBits,
                                   occupancies, lo, (lo + hi) \div 2, entries))

\* attackSetBitboards[squareIndex] as CreateSlidingAttackTable leaves it: a
\* zeroed slice of 1 << relevantBits entries, then one write per combination
CreateSlidingAttackTable(magics, relevantBits, relevantOccupancyMasks, attackSetGenerator, squareIndex) ==
  LET occupancies == allRelevantOccupacyBitboards(relevantOccupancyMasks[squareIndex + 1])
      tableSize == 2 ^ relevantBits[squareIndex + 1]
  IN SlidingWrites(attackSetGenerator, squareIndex, magics[squareIndex + 1],
                   relevantBits[squareIndex + 1], occupancies,
                   0, Cardinality(DOMAIN occupancies) - 1,
                   [key \in 0..(tableSize - 1) |-> EmptyBitboard])

CreateBishopAttackTable(squareIndex) ==
  CreateSlidingAttackTable(bishopMagicNumbers, bishopRelevantBits,
                           bishopRelevantOccupancyMasks, "bishopAttacks", squareIndex)

CreateRookAttackTable(squareIndex) ==
  CreateSlidingAttackTable(rookMagicNumbers, rookRelevantBits,
                           rookRelevantOccupancyMasks, "rookAttacks", squareIndex)

\* SlidingAttackTable.GetAttackSet, given attackSetBitboards[sq]:
\* [attackSet, key, panic] (a key past the slice is an index out of range)
GetAttackSet(entries, magics, relevantBits, relevantOccupancyMasks, sq, allPiecesBitboard) ==
  LET relevantOccupancyBitboard == allPiecesBitboard \cap relevantOccupancyMasks[sq + 1]
      key == SlidingKey(relevantOccupancyBitboard, magics[sq + 1], relevantBits[sq + 1])
  IN IF key \in DOMAIN entries
       THEN [attackSet |-> entries[key], key |-> key, panic |-> FALSE]
       ELSE [attackSet |-> EmptyBitboard, key |-> key, panic |-> TRUE]

\* ------------------------------------------------------------------------
\* Board
\* ------------------------------------------------------------------------
NoFault == "none"

NoCastlingRights ==
  [WhiteKingside |-> FALSE, WhiteQueenside |-> FALSE,
   BlackKingside |-> FALSE, BlackQueenside |-> FALSE]

NewBoard ==
  [whitePieces |-> <<>>,
   blackPieces |-> <<>>,
   squareContents |-> [s \in Squares |-> <<>>],
   enPassantTarget |-> 0,
   hasEnPassantTarget |-> FALSE,
   blackToMove |-> FALSE,
   castlingRights |-> NoCastlingRights,
   fault |-> NoFault]

MkPiece(sq, kind, isBlack) == [Kind |-> kind, Square |-> sq, IsBlack |-> isBlack]

Abort(board, why) == [board EXCEPT !.fault = why]

IsBlackToMove(board) == board.blackToMove

\* <<kingside, queenside>>
GetCastlingRights(board, isBlack) ==
  IF isBlack
    THEN <<board.castlingRights.BlackKingside, board.castlingRights.BlackQueenside>>
    ELSE <<board.castlingRights.WhiteKingside, board.castlingRights.WhiteQueenside>>

GetPiecesForSide(board, isBlack) ==
  IF isBlack THEN board.blackPieces ELSE board.whitePieces

GetPiece(board, sq) == board.squareContents[sq]

HasPiece(board, sq) == board.squareContents[sq] /= <<>>

\* index of the first element equal to el, 0 when there is none
RECURSIVE FirstIndex(_, _, _)
FirstIndex(slice, el, index) ==
  IF index > Len(slice) THEN 0
  ELSE IF slice[index] = el THEN index
  ELSE FirstIndex(slice, el, index + 1)

\* the slice without the element at foundIndex: <<updated slice, found>>
RemoveAt(slice, foundIndex) ==
  IF foundIndex = 0
    THEN <<slice, FALSE>>
    ELSE <<SubSeq(slice, 1, foundIndex - 1) \o SubSeq(slice, foundIndex + 1, Len(slice)), TRUE>>

\* removeElement with the cut one place early, append(slice[:foundIndex],
\* slice[foundIndex:]...): the element is reported removed and stays
removeElementKept(slice, el) == <<slice, FirstIndex(slice, el, 1) /= 0>>

\* <<updated slice, found>>
removeElement(slice, el) == RemoveAt(slice, FirstIndex(slice, el, 1))

\* the end of SetEmpty, given what removeElement returned
Removed(board, sq, isBlack, result) ==
  IF ~result[2] THEN Abort(board, "failed to remove piece")
  ELSE IF isBlack
    THEN [board EXCEPT !.blackPieces = result[1], !.squareContents[sq] = <<>>]
    ELSE [board EXCEPT !.whitePieces = result[1], !.squareContents[sq] = <<>>]

SetEmpty(board, sq) ==
  IF board.fault /= NoFault THEN board
  ELSE IF sq >= 64 THEN Abort(board, "index out of range")
  ELSE IF board.squareContents[sq] = <<>> THEN board
  ELSE Removed(board, sq, board.squareContents[sq][1].IsBlack,
               removeElement(GetPiecesForSide(board, board.squareContents[sq][1].IsBlack),
                             board.squareContents[sq][1]))

\* the end of SetPiece, on the board SetEmpty left
Placed(board, sq, piece) ==
  IF board.fault /= NoFault THEN board
  ELSE IF piece.IsBlack
    THEN [board EXCEPT !.squareContents[sq] = <<piece>>,
                       !.blackPieces = Append(board.blackPieces, piece)]
    ELSE [board EXCEPT !.squareContents[sq] = <<piece>>,
                       !.whitePieces = Append(board.whitePieces, piece)]

SetPiece(board, sq, kind, isBlack) ==
  Placed(SetEmpty(board, sq), sq, MkPiece(sq, kind, isBlack))

RECURSIVE SetAll(_, _, _)
SetAll(pieces, index, result) ==
  IF index > Len(pieces) THEN result
  ELSE SetAll(pieces, index + 1, Set(result, pieces[index].Square))

GetPiecesBitboard(board, isBlack) ==
  SetAll(IF isBlack THEN board.blackPieces ELSE board.whitePieces, 1, EmptyBitboard)

RECURSIVE FirstKing(_, _)
FirstKing(pieces, index) ==
  IF index > Len(pieces) THEN A1
  ELSE IF pieces[index].Kind = King THEN pieces[index].Square
  ELSE FirstKing(pieces, index + 1)

GetKingSquare(board, isBlack) == FirstKing(GetPiecesForSide(board, isBlack), 1)

\* ------------------------------------------------------------------------
\* Moves
\* ------------------------------------------------------------------------
MkMove(source, destination) ==
  [Source |-> source, Destination |-> destination,
   PromotedPiece |-> King, IsPromotion |-> FALSE]

MkPromotion(source, destination, kind) ==
  [Source |-> source, Destination |-> destination,
   PromotedPiece |-> kind, IsPromotion |-> TRUE]

\* chess.Move{}
ZeroMove == MkMove(0, 0)

ZeroUnmove ==
  [source |-> 0, destination |-> 0, capturedPiece |-> King,
   oldEnPassantTarget |-> 0, oldCastlingRights |-> NoCastlingRights,
   isCapture |-> FALSE, isPromotion |-> FALSE, hadEnPassantTarget |-> FALSE]

BackRank(black) == IF black THEN Rank8 ELSE Rank1

\* MakeMove, the Unmove it fills in
UnmoveOf(board, move) ==
  [source |-> move.Source,
   destination |-> move.Destination,
   oldEnPassantTarget |-> board.enPassantTarget,
   isCapture |-> HasPiece(board, move.Destination),
   isPromotion |-> move.IsPromotion,
   hadEnPassantTarget |-> board.hasEnPassantTarget,
   oldCastlingRights |-> board.castlingRights,
   capturedPiece |-> IF HasPiece(board, move.Destination)
                       THEN GetPiece(board, move.Destination)[1].Kind
                       ELSE King]

\* MakeMove, the kind that lands on the destination
PieceMoved(board, move) ==
  IF GetPiece(board, move.Source)[1].Kind = Pawn /\ move.IsPromotion
    THEN move.PromotedPiece
    ELSE GetPiece(board, move.Source)[1].Kind

\* MakeMove, the piece leaves its source and lands on its destination
MovePiece(board, move, pieceMoved, black) ==
  SetPiece(SetEmpty(board, move.Source), move.Destination, pieceMoved, black)

\* MakeMove, in the case of en passant the captured pawn is removed
RemoveEnPassantPawn(board, move, pieceMoved, isCapture) ==
  IF pieceMoved = Pawn /\ ~isCapture /\ File(move.Source) /= File(move.Destination)
    THEN SetEmpty(board, SquareAt(File(move.Destination), Rank(move.Source)))
    ELSE board

\* MakeMove, in the case of castling the rook is moved
\* MakeMove without the castling branch: the rook stays where it is
MoveCastlingRookStays(board, move, pieceMoved, black) == board

MoveCastlingRook(board, move, pieceMoved, black) ==
  IF pieceMoved = King /\ File(move.Source) = FileE /\ File(move.Destination) = FileC
    THEN SetPiece(SetEmpty(board, SquareAt(FileA, BackRank(black))),
                  SquareAt(FileD, BackRank(black)), Rook, black)
  ELSE IF pieceMoved = King /\ File(move.Source) = FileE /\ File(move.Destination) = FileG
    THEN SetPiece(SetEmpty(board, SquareAt(FileH, BackRank(black))),
                  SquareAt(FileF, BackRank(black)), Rook, black)
  ELSE board

\* MakeMove without board.hasEnPassantTarget = false: a double push sets
\* the target and nothing clears it
UpdateEnPassantTargetKept(board, move, pieceMoved, black) ==
  IF board.fault /= NoFault THEN board
  ELSE IF /\ pieceMoved = Pawn
          /\ Rank(move.Source) = (IF black THEN Rank7 ELSE Rank2)
          /\ Rank(move.Destination) = (IF black THEN Rank5 ELSE Rank4)
    THEN [board EXCEPT !.hasEnPassantTarget = TRUE,
                       !.enPassantTarget =
                         SquareAt(File(move.Source), IF black THEN Rank6 ELSE Rank3)]
    ELSE board

\* MakeMove, the en-passant target is cleared and set again by a double push
UpdateEnPassantTarget(board, move, pieceMoved, black) ==
  IF board.fault /= NoFault THEN board
  ELSE IF /\ pieceMoved = Pawn
          /\ Rank(move.Source) = (IF black THEN Rank7 ELSE Rank2)
          /\ Rank(move.Destination) = (IF black THEN Rank5 ELSE Rank4)
    THEN [board EXCEPT !.hasEnPassantTarget = TRUE,
                       !.enPassantTarget =
                         SquareAt(File(move.Source), IF black THEN Rank6 ELSE Rank3)]
    ELSE [board EXCEPT !.hasEnPassantTarget = FALSE]

\* MakeMove, the mover's castling rights after the move
UpdatedRights(rights, move, pieceMoved, black) ==
  IF pieceMoved = King
    THEN IF black THEN [rights EXCEPT !.BlackKingside = FALSE, !.BlackQueenside = FALSE]
                  ELSE [rights EXCEPT !.WhiteKingside = FALSE, !.WhiteQueenside = FALSE]
  ELSE IF pieceMoved = Rook /\ File(move.Source) = FileA
    THEN IF black THEN [rights EXCEPT !.BlackQueenside = FALSE]
                  ELSE [rights EXCEPT !.WhiteQueenside = FALSE]
  ELSE IF pieceMoved = Rook /\ File(move.Source) = FileH
    THEN IF black THEN [rights EXCEPT !.BlackKingside = FALSE]
                  ELSE [rights EXCEPT !.WhiteKingside = FALSE]
  ELSE rights

\* MakeMove, the castling rights are updated and the side to move changes
UpdateCastlingRights(board, move, pieceMoved, black) ==
  IF board.fault /= NoFault THEN board
  ELSE [board EXCEPT !.castlingRights = UpdatedRights(board.castlingRights, move, pieceMoved, black),
                     !.blackToMove = ~black]

\* MakeMove, the board after the move
MoveApplied(board, move, pieceMoved, isCapture, black) ==
  UpdateCastlingRights(
    UpdateEnPassantTarget(
      MoveCastlingRook(
        RemoveEnPassantPawn(MovePiece(board, move, pieceMoved, black),
                            move, pieceMoved, isCapture),
        move, pieceMoved, black),
      move, pieceMoved, black),
    move, pieceMoved, black)

\* MakeMove: [board, unmove]
MakeMove(board, move) ==
  IF board.fault /= NoFault THEN [board |-> board, unmove |-> ZeroUnmove]
  ELSE IF ~HasPiece(board, move.Source)
    THEN [board |-> Abort(board, "nil pointer dereference"), unmove |-> ZeroUnmove]
  ELSE [board |-> MoveApplied(board, move, PieceMoved(board, move),
                              HasPiece(board, move.Destination), board.blackToMove),
        unmove |-> UnmoveOf(board, move)]

\* UnmakeMove, the kind that goes back to the source
PieceUnmoved(board, unmove) ==
  IF unmove.isPromotion THEN Pawn ELSE GetPiece(board, unmove.destination)[1].Kind

\* UnmakeMove, the piece returns and the destination gets its old content
RestorePieces(board, unmove, pieceMoved, black) ==
  IF unmove.isCapture
    THEN SetPiece(SetPiece(board, unmove.source, pieceMoved, black),
                  unmove.destination, unmove.capturedPiece, ~black)
    ELSE SetEmpty(SetPiece(board, unmove.source, pieceMoved, black), unmove.destination)

\* UnmakeMove, in the case of en passant the captured pawn is restored
RestoreEnPassantPawn(board, unmove, pieceMoved, black) ==
  IF pieceMoved = Pawn /\ ~unmove.isCapture /\ File(unmove.source) /= File(unmove.destination)
    THEN SetPiece(board, SquareAt(File(unmove.destination), Rank(unmove.source)), Pawn, ~black)
    ELSE board

\* UnmakeMove, in the case of castling the rook is moved back
RestoreCastlingRook(board, unmove, pieceMoved, black) ==
  IF pieceMoved = King /\ File(unmove.source) = FileE /\ File(unmove.destination) = FileC
    THEN SetPiece(SetEmpty(board, SquareAt(FileD, BackRank(black))),
                  SquareAt(FileA, BackRank(black)), Rook, black)
  ELSE IF pieceMoved = King /\ File(unmove.source) = FileE /\ File(unmove.destination) = FileG
    THEN SetPiece(SetEmpty(board, SquareAt(FileF, BackRank(black))),
                  SquareAt(FileH, BackRank(black)), Rook, black)
  ELSE board

\* UnmakeMove, the en-passant target and the castling rights are restored
RestoreFlags(board, unmove) ==
  IF board.fault /= NoFault THEN board
  ELSE [board EXCEPT !.hasEnPassantTarget = unmove.hadEnPassantTarget,
                     !.enPassantTarget = unmove.oldEnPassantTarget,
                     !.castlingRights = unmove.oldCastlingRights]

\* UnmakeMove after the side to move was switched back
MoveUnapplied(board, unmove, pieceMoved, black) ==
  RestoreFlags(
    RestoreCastlingRook(
      RestoreEnPassantPawn(RestorePieces(board, unmove, pieceMoved, black),
                           unmove, pieceMoved, black),
      unmove, pieceMoved, black),
    unmove)

\* UnmakeMove: the board after taking the move back
UnmakeMove(board, unmove) ==
  IF board.fault /= NoFault THEN board
  ELSE IF ~unmove.isPromotion /\ ~HasPiece(board, unmove.destination)
    THEN Abort([board EXCEPT !.blackToMove = ~board.blackToMove],
               "UnmakeMove - Piece on destination square is nil")
  ELSE MoveUnapplied([board EXCEPT !.blackToMove = ~board.blackToMove], unmove,
                     PieceUnmoved(board, unmove), ~board.blackToMove)

\* ------------------------------------------------------------------------
\* Move generation
\* ------------------------------------------------------------------------
\* GetPieceAttackSet with every pawn attacking as a black pawn does
GetPieceAttackSetPawnsAlike(piece, allPiecesBitboard) ==
  CASE piece.Kind = Pawn -> blackPawnAttackSets[piece.Square + 1]
    [] piece.Kind = Knight -> knightAttackSets[piece.Square + 1]
    [] piece.Kind = Bishop -> BishopGetAttackSet(piece.Square, allPiecesBitboard)
    [] piece.Kind = Rook -> RookGetAttackSet(piece.Square, allPiecesBitboard)
    [] piece.Kind = Queen ->
         RookGetAttackSet(piece.Square, allPiecesBitboard) \cup
         BishopGetAttackSet(piece.Square, allPiecesBitboard)
    [] piece.Kind = King -> kingAttackSets[piece.Square + 1]
    [] OTHER -> EmptyBitboard

GetPieceAttackSet(piece, allPiecesBitboard) ==
  CASE piece.Kind = Pawn ->
         IF piece.IsBlack THEN blackPawnAttackSets[piece.Square + 1]
                          ELSE whitePawnAttackSets[piece.Square + 1]
    [] piece.Kind = Knight -> knightAttackSets[piece.Square + 1]
    [] piece.Kind = Bishop -> BishopGetAttackSet(piece.Square, allPiecesBitboard)
    [] piece.Kind = Rook -> RookGetAttackSet(piece.Square, allPiecesBitboard)
    [] piece.Kind = Queen ->
         RookGetAttackSet(piece.Square, allPiecesBitboard) \cup
         BishopGetAttackSet(piece.Square, allPiecesBitboard)
    [] piece.Kind = King -> kingAttackSets[piece.Square + 1]
    [] OTHER -> EmptyBitboard

\* the king-danger accumulator after one enemy piece with its attack set
DangerWith(acc, piece, attackSet, kingSquare) ==
  [result |-> acc.result \cup attackSet,
   checkingPieces |-> IF IntersectsSquare(attackSet, kingSquare)
                        THEN Append(acc.checkingPieces, piece)
                        ELSE acc.checkingPieces]

RECURSIVE KingDangerLoop(_, _, _, _, _)
KingDangerLoop(enemyPieces, allPiecesExceptKingBitboard, kingSquare, index, acc) ==
  IF index > Len(enemyPieces) THEN acc
  ELSE KingDangerLoop(enemyPieces, allPiecesExceptKingBitboard, kingSquare, index + 1,
         DangerWith(acc, enemyPieces[index],
                    GetPieceAttackSet(enemyPieces[index], allPiecesExceptKingBitboard),
                    kingSquare))

\* the same with the king left among the blockers
getKingDangerMaskAndCheckingPiecesKingBlocks(enemyPieces, allPiecesBitboard, kingSquare) ==
  KingDangerLoop(enemyPieces, allPiecesBitboard, kingSquare, 1,
                 [result |-> EmptyBitboard, checkingPieces |-> <<>>])

\* [result: the king-danger mask, checkingPieces]
getKingDangerMaskAndCheckingPieces(enemyPieces, allPiecesBitboard, kingSquare) ==
  KingDangerLoop(enemyPieces, Unset(allPiecesBitboard, kingSquare), kingSquare, 1,
                 [result |-> EmptyBitboard, checkingPieces |-> <<>>])

\* the enemy piece is a rook or queen on the king's rank or file
OnRookLine(enemyPiece, kingSquare) ==
  /\ enemyPiece.Kind = Rook \/ enemyPiece.Kind = Queen
  /\ IntersectsSquare(unobstructedRookAttacks[kingSquare + 1], enemyPiece.Square)

\* the enemy piece is a bishop or queen on one of the king's diagonals
OnBishopLine(enemyPiece, kingSquare) ==
  /\ enemyPiece.Kind = Bishop \/ enemyPiece.Kind = Queen
  /\ IntersectsSquare(unobstructedBishopAttacks[kingSquare + 1], enemyPiece.Square)

RECURSIVE PinLoop(_, _, _, _, _)
PinLoop(enemyPieces, allPiecesBitboard, kingSquare, index, acc) ==
  IF index > Len(enemyPieces) THEN acc
  ELSE PinLoop(enemyPieces, allPiecesBitboard, kingSquare, index + 1,
         [enemyRookAttacks |->
            IF OnRookLine(enemyPieces[index], kingSquare)
              THEN acc.enemyRookAttacks
                     \cup RookGetAttackSet(enemyPieces[index].Square, allPiecesBitboard)
              ELSE acc.enemyRookAttacks,
          enemyBishopAttacks |->
            IF OnBishopLine(enemyPieces[index], kingSquare)
              THEN acc.enemyBishopAttacks
                     \cup BishopGetAttackSet(enemyPieces[index].Square, allPiecesBitboard)
              ELSE acc.enemyBishopAttacks])

\* the pin mask from the attack sets the enemy loop collected
PinMaskOf(acc, kingSquare, allPiecesBitboard) ==
  (acc.enemyRookAttacks \cap RookGetAttackSet(kingSquare, allPiecesBitboard))
    \cup (acc.enemyBishopAttacks \cap BishopGetAttackSet(kingSquare, allPiecesBitboard))

getPinMask(enemyPieces, allPiecesBitboard, kingSquare) ==
  PinMaskOf(PinLoop(enemyPieces, allPiecesBitboard, kingSquare, 1,
                    [enemyRookAttacks |-> EmptyBitboard, enemyBishopAttacks |-> EmptyBitboard]),
            kingSquare, allPiecesBitboard)

\* the squares of the enemy rooks on the en-passant rank, in piece-list order
PotentialPinningRooks(board, rank) ==
  SelectSeq(GetPiecesForSide(board, ~board.blackToMove),
            LAMBDA p : p.Kind = Rook /\ Rank(p.Square) = rank)

\* the march from the king towards one rook: TRUE when it meets a piece that
\* is neither the capturing nor the captured pawn
RECURSIVE MarchBlocked(_, _, _, _, _, _, _)
MarchBlocked(board, rank, fileIndex, rookFile, marchDirection, pawnSquare, capturedPawnSquare) ==
  IF fileIndex = rookFile THEN FALSE
  ELSE IF fileIndex < 0 \/ fileIndex >= 8 THEN FALSE
  ELSE IF /\ HasPiece(board, SquareAt(fileIndex, rank))
          /\ SquareAt(fileIndex, rank) /= pawnSquare
          /\ SquareAt(fileIndex, rank) /= capturedPawnSquare
    THEN TRUE
  ELSE MarchBlocked(board, rank, fileIndex + marchDirection, rookFile, marchDirection,
                    pawnSquare, capturedPawnSquare)

EnPassantRank(board) == IF board.blackToMove THEN Rank4 ELSE Rank5

\* the fixed [2]Square array overflows with a third rook on the rank
detectEnPassantPinPanics(pawnSquare, kingSquare, board) ==
  /\ Rank(kingSquare) = EnPassantRank(board)
  /\ Rank(pawnSquare) = EnPassantRank(board)
  /\ Len(PotentialPinningRooks(board, EnPassantRank(board))) > 2

\* detectEnPassantPin once the rooks on the rank are collected
PinnedByRooks(pawnSquare, kingSquare, board, rank, rooks) ==
  IF Len(rooks) = 0 THEN FALSE
  ELSE \A i \in 1..Len(rooks) :
         ~MarchBlocked(board, rank,
                       File(kingSquare) + signum(File(rooks[i].Square) - File(kingSquare)),
                       File(rooks[i].Square),
                       signum(File(rooks[i].Square) - File(kingSquare)),
                       pawnSquare, SquareAt(File(board.enPassantTarget), rank))

detectEnPassantPin(pawnSquare, kingSquare, board) ==
  IF Rank(kingSquare) /= EnPassantRank(board) \/ Rank(pawnSquare) /= EnPassantRank(board)
    THEN FALSE
    ELSE PinnedByRooks(pawnSquare, kingSquare, board, EnPassantRank(board),
                       PotentialPinningRooks(board, EnPassantRank(board)))

\* PawnMoveSet, the single advance
PawnAdvance(advance, allPiecesBitboard) ==
  IF advance[2] THEN Set(EmptyBitboard, advance[1]) \ allPiecesBitboard ELSE EmptyBitboard

\* PawnMoveSet without the double advance
PawnThrustNever(sq, isBlack, advance, thrust, allPiecesBitboard) == EmptyBitboard

\* PawnMoveSet, the double advance from the initial rank
PawnThrust(sq, isBlack, advance, thrust, allPiecesBitboard) ==
  IF /\ Rank(sq) = (IF isBlack THEN Rank7 ELSE Rank2)
     /\ thrust[2]
     /\ (Set(EmptyBitboard, advance[1]) \cap allPiecesBitboard) = EmptyBitboard
    THEN Set(EmptyBitboard, thrust[1]) \ allPiecesBitboard
    ELSE EmptyBitboard

\* PawnMoveSet, the en-passant target when the capture is allowed
PawnEnPassant(sq, kingSquare, board) ==
  IF board.hasEnPassantTarget /\ ~detectEnPassantPin(sq, kingSquare, board)
    THEN Set(EmptyBitboard, board.enPassantTarget)
    ELSE EmptyBitboard

PawnMoveSet(sq, isBlack, friendlyPiecesBitboard, enemyPiecesBitboard, kingSquare, board) ==
  PawnAdvance(Offset(sq, 0, IF isBlack THEN 1 ELSE -1),
              friendlyPiecesBitboard \cup enemyPiecesBitboard)
    \cup PawnThrust(sq, isBlack, Offset(sq, 0, IF isBlack THEN 1 ELSE -1),
                    Offset(sq, 0, IF isBlack THEN 2 ELSE -2),
                    friendlyPiecesBitboard \cup enemyPiecesBitboard)
    \cup ((IF isBlack THEN blackPawnAttackSets[sq + 1] ELSE whitePawnAttackSets[sq + 1])
            \cap (enemyPiecesBitboard \cup PawnEnPassant(sq, kingSquare, board)))

\* the moves appended for one destination square
\* the moves appended for one destination, with the knight promotion left out
MovesToThree(piece, destinationSquare, promotionRank) ==
  IF piece.Kind = Pawn /\ Rank(destinationSquare) = promotionRank
    THEN <<MkPromotion(piece.Square, destinationSquare, Queen),
           MkPromotion(piece.Square, destinationSquare, Rook),
           MkPromotion(piece.Square, destinationSquare, Bishop)>>
    ELSE <<MkMove(piece.Square, destinationSquare)>>

MovesTo(piece, destinationSquare, promotionRank) ==
  IF piece.Kind = Pawn /\ Rank(destinationSquare) = promotionRank
    THEN <<MkPromotion(piece.Square, destinationSquare, Queen),
           MkPromotion(piece.Square, destinationSquare, Rook),
           MkPromotion(piece.Square, destinationSquare, Bishop),
           MkPromotion(piece.Square, destinationSquare, Knight)>>
    ELSE <<MkMove(piece.Square, destinationSquare)>>

\* the moves appended for one piece, destinations in ascending bit order
RECURSIVE EmitMoves(_, _, _, _)
EmitMoves(piece, destinations, index, promotionRank) ==
  IF index > Len(destinations) THEN <<>>
  ELSE MovesTo(piece, destinations[index], promotionRank)
         \o EmitMoves(piece, destinations, index + 1, promotionRank)

\* the generator's context once the king-danger mask is known
ContextWith(board, black, friendlyPiecesBitboard, enemyPiecesBitboard, kingSquare, danger) ==
  [friendlyPiecesBitboard |-> friendlyPiecesBitboard,
   enemyPiecesBitboard |-> enemyPiecesBitboard,
   allPiecesBitboard |-> friendlyPiecesBitboard \cup enemyPiecesBitboard,
   kingSquare |-> kingSquare,
   kingDangerMask |-> danger.result,
   checkingPieces |-> danger.checkingPieces,
   pinMask |-> getPinMask(GetPiecesForSide(board, ~black),
                          friendlyPiecesBitboard \cup enemyPiecesBitboard, kingSquare),
   isCheck |-> IntersectsSquare(danger.result, kingSquare),
   promotionRank |-> IF black THEN Rank1 ELSE Rank8]

\* the generator's context from the bitboards and the king square
ContextOf(board, black, friendlyPiecesBitboard, enemyPiecesBitboard, kingSquare) ==
  ContextWith(board, black, friendlyPiecesBitboard, enemyPiecesBitboard, kingSquare,
              getKingDangerMaskAndCheckingPieces(GetPiecesForSide(board, ~black),
                friendlyPiecesBitboard \cup enemyPiecesBitboard, kingSquare))

\* what GetLegalMoves computes before its piece loop
MoveGenContext(board) ==
  ContextOf(board, board.blackToMove,
            GetPiecesBitboard(board, board.blackToMove),
            GetPiecesBitboard(board, ~board.blackToMove),
            GetKingSquare(board, board.blackToMove))

\* the squares that answer a single check: the checking piece and, for a
\* slider, the ray from the king towards it
ValidMovesMask(checkingPiece, kingSquare, allPiecesBitboard) ==
  Set(EmptyBitboard, checkingPiece.Square) \cup
  (IF checkingPiece.Kind = Queen \/ checkingPiece.Kind = Rook \/ checkingPiece.Kind = Bishop
     THEN rayBitboard(kingSquare, allPiecesBitboard,
                      signum(File(checkingPiece.Square) - File(kingSquare)),
                      signum(Rank(checkingPiece.Square) - Rank(kingSquare)))
     ELSE EmptyBitboard)

\* the check filter of the piece loop: capture the checking piece or interpose
CheckFilterOff(piece, ctx, moveSet) == moveSet

CheckFilter(piece, ctx, moveSet) ==
  IF Len(ctx.checkingPieces) = 1 /\ piece.Kind /= King
    THEN moveSet \cap ValidMovesMask(ctx.checkingPieces[1], ctx.kingSquare, ctx.allPiecesBitboard)
    ELSE moveSet

\* the pin filter of the piece loop
PinFilterOff(piece, ctx, moveSet) == moveSet

PinFilter(piece, ctx, moveSet) ==
  IF IntersectsSquare(ctx.pinMask, piece.Square)
    THEN moveSet \cap rayBitboard(ctx.kingSquare, EmptyBitboard,
                                  signum(File(piece.Square) - File(ctx.kingSquare)),
                                  signum(Rank(piece.Square) - Rank(ctx.kingSquare)))
    ELSE moveSet

\* the king may not step onto a square of the king-danger mask
KingFilter(piece, ctx, moveSet) ==
  IF piece.Kind = King THEN moveSet \ ctx.kingDangerMask ELSE moveSet

\* the destinations of one piece before the filters
PseudoMoveSet(piece, ctx, board) ==
  IF piece.Kind = Pawn
    THEN PawnMoveSet(piece.Square, piece.IsBlack, ctx.friendlyPiecesBitboard,
                     ctx.enemyPiecesBitboard, ctx.kingSquare, board)
    ELSE GetPieceAttackSet(piece, ctx.friendlyPiecesBitboard \cup ctx.enemyPiecesBitboard)
           \ ctx.friendlyPiecesBitboard

\* the destination bitboard of one piece after all filters of the loop body
PieceMoveSet(piece, ctx, board) ==
  IF Len(ctx.checkingPieces) > 1 /\ piece.Kind /= King THEN EmptyBitboard
  ELSE CheckFilter(piece, ctx,
         PinFilter(piece, ctx, KingFilter(piece, ctx, PseudoMoveSet(piece, ctx, board))))

RECURSIVE PieceLoop(_, _, _, _)
PieceLoop(friendlyPieces, index, ctx, board) ==
  IF index > Len(friendlyPieces) THEN <<>>
  ELSE EmitMoves(friendlyPieces[index],
                 BitsAscending(PieceMoveSet(friendlyPieces[index], ctx, board)),
                 1, ctx.promotionRank)
         \o PieceLoop(friendlyPieces, index + 1, ctx, board)

\* a rook of the side to move stands on the given file of its back rank
RookOn(board, file, black) ==
  /\ HasPiece(board, SquareAt(file, BackRank(black)))
  /\ GetPiece(board, SquareAt(file, BackRank(black)))[1].Kind = Rook
  /\ GetPiece(board, SquareAt(file, BackRank(black)))[1].IsBlack = black

kingsideCastleOccupancyMask(backRank) ==
  Set(Set(EmptyBitboard, SquareAt(FileF, backRank)), SquareAt(FileG, backRank))

queensideCastleDangerMask(backRank) ==
  Set(Set(EmptyBitboard, SquareAt(FileD, backRank)), SquareAt(FileC, backRank))

queensideCastleOccupancyMask(backRank) ==
  Set(queensideCastleDangerMask(backRank), SquareAt(FileB, backRank))

\* canCastleKingside without the king-danger test
canCastleKingsideThroughAttack(board, ctx, black) ==
  /\ GetCastlingRights(board, black)[1]
  /\ (kingsideCastleOccupancyMask(BackRank(black)) \cap ctx.allPiecesBitboard) = EmptyBitboard
  /\ RookOn(board, FileH, black)
  /\ ~ctx.isCheck

canCastleKingside(board, ctx, black) ==
  /\ GetCastlingRights(board, black)[1]
  /\ (kingsideCastleOccupancyMask(BackRank(black)) \cap ctx.allPiecesBitboard) = EmptyBitboard
  /\ (kingsideCastleOccupancyMask(BackRank(black)) \cap ctx.kingDangerMask) = EmptyBitboard
  /\ RookOn(board, FileH, black)
  /\ ~ctx.isCheck

\* canCastleQueenside with the B square in the danger test
canCastleQueensideSafeB(board, ctx, black) ==
  /\ GetCastlingRights(board, black)[2]
  /\ (queensideCastleOccupancyMask(BackRank(black)) \cap ctx.allPiecesBitboard) = EmptyBitboard
  /\ (queensideCastleOccupancyMask(BackRank(black)) \cap ctx.kingDangerMask) = EmptyBitboard
  /\ RookOn(board, FileA, black)
  /\ ~ctx.isCheck

canCastleQueenside(board, ctx, black) ==
  /\ GetCastlingRights(board, black)[2]
  /\ (queensideCastleOccupancyMask(BackRank(black)) \cap ctx.allPiecesBitboard) = EmptyBitboard
  /\ (queensideCastleDangerMask(BackRank(black)) \cap ctx.kingDangerMask) = EmptyBitboard
  /\ RookOn(board, FileA, black)
  /\ ~ctx.isCheck

\* the castling moves appended after the piece loop
CastlingMoves(board, ctx) ==
  (IF canCastleKingside(board, ctx, board.blackToMove)
     THEN <<MkMove(SquareAt(FileE, BackRank(board.blackToMove)),
                   SquareAt(FileG, BackRank(board.blackToMove)))>>
     ELSE <<>>)
  \o
  (IF canCastleQueenside(board, ctx, board.blackToMove)
     THEN <<MkMove(SquareAt(FileE, BackRank(board.blackToMove)),
                   SquareAt(FileC, BackRank(board.blackToMove)))>>
     ELSE <<>>)

\* GetLegalMoves once the context is computed: the piece loop, then castling
MovesIn(board, ctx) ==
  PieceLoop(GetPiecesForSide(board, board.blackToMove), 1, ctx, board)
    \o CastlingMoves(board, ctx)

GetLegalMoves(board) == MovesIn(board, MoveGenContext(board))

\* the piece loop reaches detectEnPassantPin for a pawn and overruns its array
PanicsIn(board, ctx) ==
  /\ board.hasEnPassantTarget
  /\ Len(ctx.checkingPieces) <= 1
  /\ \E piece \in Range(GetPiecesForSide(board, board.blackToMove)) :
       /\ piece.Kind = Pawn
       /\ detectEnPassantPinPanics(piece.Square, ctx.kingSquare, board)

\* GetLegalMoves indexes past the two-entry rook array of detectEnPassantPin
GetLegalMovesPanics(board) == PanicsIn(board, MoveGenContext(board))

GetLegalMovesFromSquare(board, sq) ==
  SelectSeq(GetLegalMoves(board), LAMBDA move : move.Source = sq)

IsCheck(board) ==
  IntersectsSquare(
    getKingDangerMaskAndCheckingPieces(
      GetPiecesForSide(board, ~board.blackToMove),
      GetPiecesBitboard(board, board.blackToMove)
        \cup GetPiecesBitboard(board, ~board.blackToMove),
      GetKingSquare(board, board.blackToMove)).result,
    GetKingSquare(board, board.blackToMove))

\* DetectIllegalMove, the board it leaves: the side to move is switched for
\* the call of IsCheck and switched back
DetectIllegalMoveBoard(board) ==
  [[board EXCEPT !.blackToMove = ~board.blackToMove] EXCEPT !.blackToMove = ~@]

\* True if the previous move left the king in check
DetectIllegalMove(board) == IsCheck([board EXCEPT !.blackToMove = ~board.blackToMove])

\* ------------------------------------------------------------------------
\* FEN codec.  A string is a sequence of one-character strings.
\* ------------------------------------------------------------------------
Digits == <<"0", "1", "2", "3", "4", "5", "6", "7", "8", "9">>

LowerLetters ==
  <<"a", "b", "c", "d", "e", "f", "g", "h", "i", "j", "k", "l", "m",
    "n", "o", "p", "q", "r", "s", "t", "u", "v", "w", "x", "y", "z">>

UpperLetters ==
  <<"A", "B", "C", "D", "E", "F", "G", "H", "I", "J", "K", "L", "M",
    "N", "O", "P", "Q", "R", "S", "T", "U", "V", "W", "X", "Y", "Z">>

IndexIn(seq, x) == CHOOSE i \in 1..Len(seq) : seq[i] = x

IsDigit(char) == char \in Range(Digits)

IsLower(char) == char \in Range(LowerLetters)

IsUpper(char) == char \in Range(UpperLetters)

IsLetter(char) == IsLower(char) \/ IsUpper(char)

ToLower(char) == IF IsUpper(char) THEN LowerLetters[IndexIn(UpperLetters, char)] ELSE char

ToUpper(char) == IF IsLower(char) THEN UpperLetters[IndexIn(LowerLetters, char)] ELSE char

\* int(char) - int('0')
DigitValue(char) == IndexIn(Digits, char) - 1

\* fmt.Sprint of an int in 0..9
Sprint(n) == Digits[n + 1]

\* [kind, err]
PieceWithAlgebraicLetter(letter) ==
  LET l == ToLower(letter)
  IN CASE l = "p" -> [kind |-> Pawn, err |-> ""]
       [] l = "n" -> [kind |-> Knight, err |-> ""]
       [] l = "b" -> [kind |-> Bishop, err |-> ""]
       [] l = "r" -> [kind |-> Rook, err |-> ""]
       [] l = "q" -> [kind |-> Queen, err |-> ""]
       [] l = "k" -> [kind |-> King, err |-> ""]
       [] OTHER -> [kind |-> Pawn, err |-> "unknown piece letter"]

\* AlgebraicLetter with the knight written by its initial
AlgebraicLetterKnightInitial(piece) ==
  CASE piece = Pawn -> "p"
    [] piece = Knight -> "k"
    [] piece = Bishop -> "b"
    [] piece = Rook -> "r"
    [] piece = Queen -> "q"
    [] piece = King -> "k"
    [] OTHER -> "_"

AlgebraicLetter(piece) ==
  CASE piece = Pawn -> "p"
    [] piece = Knight -> "n"
    [] piece = Bishop -> "b"
    [] piece = Rook -> "r"
    [] piece = Queen -> "q"
    [] piece = King -> "k"
    [] OTHER -> "_"

\* strings.Split(s, sep) for a one-character separator
RECURSIVE SplitFrom(_, _, _, _)
SplitFrom(str, sep, index, current) ==
  IF index > Len(str) THEN <<current>>
  ELSE IF str[index] = sep THEN <<current>> \o SplitFrom(str, sep, index + 1, <<>>)
  ELSE SplitFrom(str, sep, index + 1, Append(current, str[index]))

Split(str, sep) == SplitFrom(str, sep, 1, <<>>)

ContainsRune(str, r) == \E i \in 1..Len(str) : str[i] = r

\* the piece-placement loop of LoadFen: [board, rankIndex, fileIndex, err]
RECURSIVE PlacementLoop(_, _, _)
PlacementLoop(field, index, st) ==
  IF index > Len(field) \/ st.err /= "" \/ st.board.fault /= NoFault THEN st
  ELSE LET char == field[index]
           square == SquareAt(st.fileIndex, st.rankIndex)
       IN IF IsDigit(char)
            THEN PlacementLoop(field, index + 1,
                   [st EXCEPT !.fileIndex = @ + DigitValue(char)])
          ELSE IF IsLetter(char)
            THEN LET r == PieceWithAlgebraicLetter(char)
                 IN IF r.err /= ""
                      THEN [st EXCEPT !.err = "unexpected letter"]
                      ELSE PlacementLoop(field, index + 1,
                             [st EXCEPT !.board = SetPiece(st.board, square, r.kind, IsLower(char)),
                                        !.fileIndex = @ + 1])
          ELSE IF char = "/"
            THEN PlacementLoop(field, index + 1,
                   [st EXCEPT !.rankIndex = @ + 1, !.fileIndex = 0])
          ELSE [st EXCEPT !.err = "unexpected character"]

\* LoadFen: [board (a pointer: <<>> is nil), err ("" is nil), panic]
LoadedFrom(fields, placed) ==
  IF placed.board.fault /= NoFault
    THEN [board |-> <<>>, err |-> "", panic |-> TRUE]
  ELSE IF placed.err /= ""
    THEN [board |-> <<>>, err |-> placed.err, panic |-> FALSE]
  ELSE IF Len(fields) < 2
    THEN [board |-> <<>>, err |-> "", panic |-> TRUE]
  ELSE IF fields[2] /= <<"w">> /\ fields[2] /= <<"b">>
    THEN [board |-> <<>>, err |-> "unexpected side to move", panic |-> FALSE]
  ELSE IF Len(fields) < 3
    THEN [board |-> <<>>, err |-> "", panic |-> TRUE]
  ELSE [board |-> <<[placed.board EXCEPT
                       !.blackToMove = (fields[2] = <<"b">>),
                       !.castlingRights =
                         [WhiteKingside |-> ContainsRune(fields[3], "K"),
                          BlackKingside |-> ContainsRune(fields[3], "k"),
                          WhiteQueenside |-> ContainsRune(fields[3], "Q"),
                          BlackQueenside |-> ContainsRune(fields[3], "q")]]>>,
        err |-> "", panic |-> FALSE]

\* the fields of the string, then the outcome of reading them
FieldsLoaded(fields) ==
  LoadedFrom(fields,
             PlacementLoop(fields[1], 1,
               [board |-> NewBoard, rankIndex |-> 0, fileIndex |-> 0, err |-> ""]))

LoadFen(fen) == FieldsLoaded(Split(fen, " "))

\* one rank of the piece placement written by Fen
RECURSIVE FenRank(_, _, _, _)
FenRank(board, rankIndex, fileIndex, numEmptySquares) ==
  IF fileIndex >= 8
    THEN IF numEmptySquares > 0 THEN <<Sprint(numEmptySquares)>> ELSE <<>>
  ELSE LET piece == GetPiece(board, SquareAt(fileIndex, rankIndex))
       IN IF piece = <<>>
            THEN FenRank(board, rankIndex, fileIndex + 1, numEmptySquares + 1)
            ELSE (IF numEmptySquares > 0 THEN <<Sprint(numEmptySquares)>> ELSE <<>>)
                 \o <<IF piece[1].IsBlack THEN AlgebraicLetter(piece[1].Kind)
                                          ELSE ToUpper(AlgebraicLetter(piece[1].Kind))>>
                 \o FenRank(board, rankIndex, fileIndex + 1, 0)

RECURSIVE FenRanks(_, _)
FenRanks(board, rankIndex) ==
  IF rankIndex >= 8 THEN <<>>
  ELSE FenRank(board, rankIndex, 0, 0)
         \o (IF rankIndex /= 7 THEN <<"/">> ELSE <<>>)
         \o FenRanks(board, rankIndex + 1)

Fen(board) ==
  LET cr == board.castlingRights
  IN FenRanks(board, 0) \o <<" ">>
       \o <<IF board.blackToMove THEN "b" ELSE "w">> \o <<" ">>
       \o (IF ~cr.WhiteKingside /\ ~cr.WhiteQueenside /\ ~cr.BlackKingside /\ ~cr.BlackQueenside
             THEN <<"-">>
             ELSE (IF cr.WhiteKingside THEN <<"K">> ELSE <<>>)
                  \o (IF cr.WhiteQueenside THEN <<"Q">> ELSE <<>>)
                  \o (IF cr.BlackKingside THEN <<"k">> ELSE <<>>)
                  \o (IF cr.BlackQueenside THEN <<"q">> ELSE <<>>))

\* ------------------------------------------------------------------------
\* Evaluator (values in hundredths of a pawn)
\* ------------------------------------------------------------------------
\* math.Inf(1); math.Inf(-1) is -INF
INF == 1000000

pawnValue == 100
knightValue == 300
bishopValue == 320
rookValue == 500
queenValue == 900
castlingRightsBonus == 50
endgameWeight == 0

\* The piece-square tables are external constants, 64 integers per piece
\* kind and phase: sample tables, small against the material values.
pieceSquareTableMiddlegame(kind, tableIndex) ==
  LET file == tableIndex % 8
      rank == tableIndex \div 8
      centreFile == IF file < 4 THEN file ELSE 7 - file
      centreRank == IF rank < 4 THEN rank ELSE 7 - rank
  IN CASE kind = Pawn -> 5 * (centreFile + centreRank)
       [] kind = Knight -> 10 * (centreFile + centreRank) - 30
       [] kind = Bishop -> 5 * (centreFile + centreRank) - 10
       [] kind = Rook -> 2 * centreFile
       [] kind = Queen -> 2 * (centreFile + centreRank)
       [] OTHER -> 10 - 5 * (centreFile + centreRank)

pieceSquareTableEndgame(kind, tableIndex) ==
  LET file == tableIndex % 8
      rank == tableIndex \div 8
      centreFile == IF file < 4 THEN file ELSE 7 - file
      centreRank == IF rank < 4 THEN rank ELSE 7 - rank
  IN 5 * (centreFile + centreRank)

mix(a, b, t) == a + (b - a) * t

evaluatePieceSquareTables(sq, weight, kind) ==
  LET tableIndex == 63 - sq
      middlegameSquareValue == pieceSquareTableMiddlegame(kind, tableIndex)
      endgameSquareValue == pieceSquareTableEndgame(kind, tableIndex)
  IN mix(middlegameSquareValue, endgameSquareValue, weight)

MaterialValue(kind) ==
  CASE kind = Pawn -> pawnValue
    [] kind = Knight -> knightValue
    [] kind = Bishop -> bishopValue
    [] kind = Rook -> rookValue
    [] kind = Queen -> queenValue
    [] OTHER -> 0

RECURSIVE PiecesSum(_, _)
PiecesSum(pieces, index) ==
  IF index > Len(pieces) THEN 0
  ELSE MaterialValue(pieces[index].Kind)
         + evaluatePieceSquareTables(pieces[index].Square, endgameWeight, pieces[index].Kind)
         + PiecesSum(pieces, index + 1)

evaluatePieces(board, black) == PiecesSum(GetPiecesForSide(board, black), 1)

evaluateCastlingRights(board, black) ==
  LET rights == GetCastlingRights(board, black)
  IN IF rights[1] \/ rights[2] THEN castlingRightsBonus ELSE 0

\* evaluate once the legal moves are generated
EvaluationWith(board, black, legalMoves) ==
  IF Len(legalMoves) = 0
    THEN IF IsCheck(board) THEN -INF ELSE 0
    ELSE evaluatePieces(board, black) - evaluatePieces(board, ~black)
           + evaluateCastlingRights(board, black) - evaluateCastlingRights(board, ~black)

\* evaluate without the test for an empty move list
evaluateMaterialOnly(board) ==
  evaluatePieces(board, IsBlackToMove(board)) - evaluatePieces(board, ~IsBlackToMove(board))
    + evaluateCastlingRights(board, IsBlackToMove(board))
    - evaluateCastlingRights(board, ~IsBlackToMove(board))

evaluate(board) == EvaluationWith(board, IsBlackToMove(board), GetLegalMoves(board))

\* ------------------------------------------------------------------------
\* Searcher
\* ------------------------------------------------------------------------
searchDepth == 4
quiescenceSearchDepth == 4

\* A generator that ignores the captures-only flag.
GetLegalMovesFlagIgnored(board, capturesOnly) == GetLegalMoves(board)

\* The generator the searcher calls takes a captures-only flag.  With the
\* flag set it returns only the moves landing on an enemy-occupied square.
GetLegalMovesFlag(board, capturesOnly) ==
  IF capturesOnly
    THEN SelectSeq(GetLegalMoves(board),
                   LAMBDA move : /\ HasPiece(board, move.Destination)
                                 /\ GetPiece(board, move.Destination)[1].IsBlack /= board.blackToMove)
    ELSE GetLegalMoves(board)

RECURSIVE quiescenceSearch(_, _, _, _)
RECURSIVE QuiescenceLoop(_, _, _, _, _, _)
RECURSIVE QuiescenceRest(_, _, _, _, _, _)
RECURSIVE QuiescenceMade(_, _, _, _)
RECURSIVE QuiescenceCaptures(_, _, _, _, _)
RECURSIVE QuiescenceAfterStandPat(_, _, _, _, _)

\* The loops of the searcher carry a state from one pass of the body to the
\* next: the record the function returns, with returned set once the body
\* has returned.  The passes over moves[first..last] are made in order, the
\* first half before the second, and none after a return.

\* the loop body of quiescenceSearch after UnmakeMove
QuiescenceUnmade(beta, state, eval, unmade) ==
  CASE unmade.fault /= NoFault -> [eval |-> 0, board |-> unmade, returned |-> TRUE]
    [] unmade.fault = NoFault /\ eval >= beta ->
         [eval |-> beta, board |-> unmade, returned |-> TRUE]
    [] OTHER ->
         [eval |-> IF eval > state.eval THEN eval ELSE state.eval,
          board |-> unmade, returned |-> FALSE]

\* the loop body after the recursive call
QuiescenceSearched(beta, state, unmove, child) ==
  QuiescenceUnmade(beta, state, -child.eval, UnmakeMove(child.board, unmove))

\* the loop body after MakeMove
QuiescenceMade(depth, beta, state, made) ==
  QuiescenceSearched(beta, state, made.unmove,
                     quiescenceSearch(depth - 1, made.board, -beta, -state.eval))

\* the capture loop of quiescenceSearch over legalCaptures[first..last]
QuiescenceLoop(depth, beta, legalCaptures, first, last, state) ==
  IF first = last
    THEN QuiescenceMade(depth, beta, state, MakeMove(state.board, legalCaptures[first]))
    ELSE QuiescenceRest(depth, beta, legalCaptures, ((first + last) \div 2) + 1, last,
           QuiescenceLoop(depth, beta, legalCaptures, first, (first + last) \div 2, state))

\* the later passes, unless an earlier pass has returned
QuiescenceRest(depth, beta, legalCaptures, first, last, state) ==
  IF state.returned THEN state
  ELSE QuiescenceLoop(depth, beta, legalCaptures, first, last, state)

\* quiescenceSearch once the captures are generated
QuiescenceCaptures(depth, board, alpha, beta, legalCaptures) ==
  IF Len(legalCaptures) = 0 \/ depth <= 0
    THEN [eval |-> evaluate(board), board |-> board, returned |-> TRUE]
    ELSE QuiescenceLoop(depth, beta, legalCaptures, 1, Len(legalCaptures),
                        [eval |-> alpha, board |-> board, returned |-> FALSE])

\* quiescenceSearch once the standing evaluation is known
QuiescenceAfterStandPat(depth, board, alpha, beta, standPat) ==
  IF standPat >= beta THEN [eval |-> beta, board |-> board, returned |-> TRUE]
  ELSE QuiescenceCaptures(depth, board, IF standPat > alpha THEN standPat ELSE alpha, beta,
                          GetLegalMovesFlag(board, TRUE))

\* quiescenceSearch: [eval, board (as the search leaves it)]
quiescenceSearch(depth, board, alpha, beta) ==
  CASE board.fault /= NoFault -> [eval |-> 0, board |-> board, returned |-> TRUE]
    [] board.fault = NoFault /\ GetLegalMovesPanics(board) ->
         [eval |-> 0, board |-> Abort(board, "index out of range"), returned |-> TRUE]
    [] OTHER -> QuiescenceAfterStandPat(depth, board, alpha, beta, evaluate(board))

RECURSIVE search(_, _, _, _)
RECURSIVE SearchLoop(_, _, _, _, _, _)
RECURSIVE SearchRest(_, _, _, _, _, _)
RECURSIVE SearchMade(_, _, _, _, _)
RECURSIVE SearchMoves(_, _, _, _, _)

\* A loop body whose cutoff returns the evaluation itself instead of beta.
SearchUnmadeFailSoft(beta, state, move, eval, unmade) ==
  CASE unmade.fault /= NoFault ->
         [bestMove |-> ZeroMove, bestEval |-> 0, board |-> unmade, returned |-> TRUE]
    [] unmade.fault = NoFault /\ eval >= beta ->
         [bestMove |-> state.bestMove, bestEval |-> eval, board |-> unmade, returned |-> TRUE]
    [] OTHER ->
         [bestMove |-> IF eval > state.bestEval THEN move ELSE state.bestMove,
          bestEval |-> IF eval > state.bestEval THEN eval ELSE state.bestEval,
          board |-> unmade, returned |-> FALSE]

\* the loop body of search after UnmakeMove: the cutoff, then the new best move
SearchUnmade(beta, state, move, eval, unmade) ==
  CASE unmade.fault /= NoFault ->
         [bestMove |-> ZeroMove, bestEval |-> 0, board |-> unmade, returned |-> TRUE]
    [] unmade.fault = NoFault /\ eval >= beta ->
         [bestMove |-> state.bestMove, bestEval |-> beta, board |-> unmade, returned |-> TRUE]
    [] OTHER ->
         [bestMove |-> IF eval > state.bestEval THEN move ELSE state.bestMove,
          bestEval |-> IF eval > state.bestEval THEN eval ELSE state.bestEval,
          board |-> unmade, returned |-> FALSE]

\* the loop body after the recursive call
SearchSearched(beta, state, move, unmove, child) ==
  SearchUnmade(beta, state, move, -child.bestEval, UnmakeMove(child.board, unmove))

\* A loop body that searches the reply with the caller's own window.
SearchMadeSameWindow(depth, beta, state, move, made) ==
  SearchSearched(beta, state, move, made.unmove,
                 search(depth - 1, made.board, state.bestEval, beta))

\* the loop body after MakeMove
SearchMade(depth, beta, state, move, made) ==
  SearchSearched(beta, state, move, made.unmove,
                 search(depth - 1, made.board, -beta, -state.bestEval))

\* the move loop of search over moves[first..last]
SearchLoop(depth, beta, moves, first, last, state) ==
  IF first = last
    THEN SearchMade(depth, beta, state, moves[first], MakeMove(state.board, moves[first]))
    ELSE SearchRest(depth, beta, moves, ((first + last) \div 2) + 1, last,
           SearchLoop(depth, beta, moves, first, (first + last) \div 2, state))

\* the later passes, unless an earlier pass has returned
SearchRest(depth, beta, moves, first, last, state) ==
  IF state.returned THEN state
  ELSE SearchLoop(depth, beta, moves, first, last, state)

\* search once the legal moves are generated
SearchMoves(depth, board, alpha, beta, moves) ==
  IF Len(moves) = 0
    THEN [bestMove |-> ZeroMove, bestEval |-> evaluate(board), board |-> board,
          returned |-> TRUE]
    ELSE SearchLoop(depth, beta, moves, 1, Len(moves),
                    [bestMove |-> moves[1], bestEval |-> alpha, board |-> board,
                     returned |-> FALSE])

\* the leaf of search: the quiescence search gives the evaluation
SearchLeaf(q) ==
  [bestMove |-> ZeroMove, bestEval |-> q.eval, board |-> q.board, returned |-> TRUE]

\* search: [bestMove, bestEval, board (as the search leaves it)]
search(depth, board, alpha, beta) ==
  CASE board.fault /= NoFault ->
         [bestMove |-> ZeroMove, bestEval |-> 0, board |-> board, returned |-> TRUE]
    [] board.fault = NoFault /\ depth <= 0 ->
         SearchLeaf(quiescenceSearch(quiescenceSearchDepth, board, alpha, beta))
    [] board.fault = NoFault /\ depth > 0 /\ GetLegalMovesPanics(board) ->
         [bestMove |-> ZeroMove, bestEval |-> 0,
          board |-> Abort(board, "index out of range"), returned |-> TRUE]
    [] OTHER -> SearchMoves(depth, board, alpha, beta, GetLegalMovesFlag(board, FALSE))

\* Think: [bestMove, bestEval, board]
Think(board) == search(searchDepth, board, -INF, INF)

\* ------------------------------------------------------------------------
\* perft
\* ------------------------------------------------------------------------
\* perft: [nodeCount, board], the board as the calls leave it
RECURSIVE perft(_, _)
RECURSIVE PerftLoop(_, _, _, _)
perft(board, depth) ==
  IF depth = 0 THEN [nodeCount |-> 1, board |-> board]
  ELSE IF GetLegalMovesPanics(board)
    THEN [nodeCount |-> 0, board |-> Abort(board, "index out of range")]
  ELSE PerftLoop(GetLegalMoves(board), 1, depth, [nodeCount |-> 0, board |-> board])

\* the loop of perft over the legal moves, from moves[index] on
PerftLoop(moves, index, depth, state) ==
  IF index > Len(moves) \/ state.board.fault /= NoFault THEN state
  ELSE \* unmove := board.MakeMove(move); perft(board, depth - 1); board.UnmakeMove(unmove)
       LET made == MakeMove(state.board, moves[index])
           below == perft(made.board, depth - 1)
       IN PerftLoop(moves, index + 1, depth,
                    [nodeCount |-> state.nodeCount + below.nodeCount,
                     board |-> UnmakeMove(below.board, made.unmove)])

\* ------------------------------------------------------------------------
\* Positions the model starts from
\* ------------------------------------------------------------------------
\* "rnbqkbnr/pppppppp/8/8/8/8/PPPPPPPP/RNBQKBNR w KQkq - 0 1"
StartingPositionFen ==
  <<"r", "n", "b", "q", "k", "b", "n", "r", "/", "p", "p", "p", "p", "p", "p", "p", "p", "/", "8", "/", "8", "/", "8", "/", "8", "/", "P", "P", "P", "P", "P", "P", "P", "P", "/", "R", "N", "B", "Q", "K", "B", "N", "R", " ", "w", " ", "K", "Q", "k", "q", " ", "-", " ", "0", " ", "1">>

\* "4k3/8/8/8/8/8/4P3/4K3 w - -": a double push is available
FenPawnStart ==
  <<"4", "k", "3", "/", "8", "/", "8", "/", "8", "/", "8", "/", "8", "/", "4", "P", "3", "/", "4", "K", "3", " ", "w", " ", "-", " ", "-">>

\* "4k3/3p4/8/4P3/8/8/8/4K3 b - - 0 1": d7d5 lets the e5 pawn capture en passant
FenEnPassant ==
  <<"4", "k", "3", "/", "3", "p", "4", "/", "8", "/", "4", "P", "3", "/", "8", "/", "8", "/", "8", "/", "4", "K", "3", " ", "b", " ", "-", " ", "-", " ", "0", " ", "1">>

\* "4k3/3p4/8/q3P2K/8/8/8/8 b - -": after d7d5 both pawns shield the king on h5 from the queen on a5
FenEnPassantQueen ==
  <<"4", "k", "3", "/", "3", "p", "4", "/", "8", "/", "q", "3", "P", "2", "K", "/", "8", "/", "8", "/", "8", "/", "8", " ", "b", " ", "-", " ", "-">>

\* "4k3/3p4/8/4P3/4K3/8/8/8 b - -": d7d5 checks the king on e4
FenEnPassantCheck ==
  <<"4", "k", "3", "/", "3", "p", "4", "/", "8", "/", "4", "P", "3", "/", "4", "K", "3", "/", "8", "/", "8", "/", "8", " ", "b", " ", "-", " ", "-">>

\* "4k2r/8/8/8/8/8/8/R3K3 w Qk - 0 1": white may castle queenside, black kingside
FenCastle ==
  <<"4", "k", "2", "r", "/", "8", "/", "8", "/", "8", "/", "8", "/", "8", "/", "8", "/", "R", "3", "K", "3", " ", "w", " ", "Q", "k", " ", "-", " ", "0", " ", "1">>

\* "1n2k3/P7/8/8/8/8/8/4K3 w - -": a7 promotes on a8 or by capturing b8
FenPromotion ==
  <<"1", "n", "2", "k", "3", "/", "P", "7", "/", "8", "/", "8", "/", "8", "/", "8", "/", "8", "/", "4", "K", "3", " ", "w", " ", "-", " ", "-">>

\* "6k1/5ppp/8/8/8/8/4K3/R7 w - -": Ra8 is mate
FenMateInOne ==
  <<"6", "k", "1", "/", "5", "p", "p", "p", "/", "8", "/", "8", "/", "8", "/", "8", "/", "4", "K", "3", "/", "R", "7", " ", "w", " ", "-", " ", "-">>

\* "k7/8/2Q5/8/8/8/8/4K3 w - - 3 40": Qb6 stalemates
FenStalemate ==
  <<"k", "7", "/", "8", "/", "2", "Q", "5", "/", "8", "/", "8", "/", "8", "/", "8", "/", "4", "K", "3", " ", "w", " ", "-", " ", "-", " ", "3", " ", "4", "0">>

\* "4k3/8/8/8/8/8/8/3Kn2R w K -": white holds the kingside right with its king on d1 and a black knight on e1
FenRightsKnight ==
  <<"4", "k", "3", "/", "8", "/", "8", "/", "8", "/", "8", "/", "8", "/", "8", "/", "3", "K", "n", "2", "R", " ", "w", " ", "K", " ", "-">>

\* "7k/8/8/8/8/7p/7P/K6R w K -": white holds the kingside right with its king on a1 and e1 empty
FenRightsEmpty ==
  <<"7", "k", "/", "8", "/", "8", "/", "8", "/", "8", "/", "7", "p", "/", "7", "P", "/", "K", "6", "R", " ", "w", " ", "K", " ", "-">>

\* "4k3/4p3/8/8/8/8/8/4K3 w - -"
FenKingPawn ==
  <<"4", "k", "3", "/", "4", "p", "3", "/", "8", "/", "8", "/", "8", "/", "8", "/", "8", "/", "4", "K", "3", " ", "w", " ", "-", " ", "-">>

\* "4k3/8/8/8/8/8/44/4KB2 w - - 0 1": the seventh row is written as two runs of four
FenSplitRuns ==
  <<"4", "k", "3", "/", "8", "/", "8", "/", "8", "/", "8", "/", "8", "/", "4", "4", "/", "4", "K", "B", "2", " ", "w", " ", "-", " ", "-", " ", "0", " ", "1">>

\* "r3k2r/8/8/8/8/8/8/R3K2R w KQkq -": both sides hold both rights; the rooks face each other
FenCastleBoth ==
  <<"r", "3", "k", "2", "r", "/", "8", "/", "8", "/", "8", "/", "8", "/", "8", "/", "8", "/", "R", "3", "K", "2", "R", " ", "w", " ", "K", "Q", "k", "q", " ", "-">>

\* "r3k2r/p6p/P6P/8/8/p6p/P6P/R3K2R w KQkq -": both sides hold both rights; the rook pawns are blocked
FenCastleShielded ==
  <<"r", "3", "k", "2", "r", "/", "p", "6", "p", "/", "P", "6", "P", "/", "8", "/", "8", "/", "p", "6", "p", "/", "P", "6", "P", "/", "R", "3", "K", "2", "R", " ", "w", " ", "K", "Q", "k", "q", " ", "-">>

\* "1r2k3/8/8/8/8/8/8/R3K3 w Q -": b1 is attacked by the black rook
FenQueensideAttacked ==
  <<"1", "r", "2", "k", "3", "/", "8", "/", "8", "/", "8", "/", "8", "/", "8", "/", "8", "/", "R", "3", "K", "3", " ", "w", " ", "Q", " ", "-">>

\* "r3k3/8/8/8/8/8/8/4K2R w KQkq -": each side holds a right whose rook is not on its square
FenRookGone ==
  <<"r", "3", "k", "3", "/", "8", "/", "8", "/", "8", "/", "8", "/", "8", "/", "8", "/", "4", "K", "2", "R", " ", "w", " ", "K", "Q", "k", "q", " ", "-">>

\* "4k3/3p4/8/4P2K/8/8/8/8 b - -": after d7d5 the king on h5 shares rank 5 with both pawns
FenEnPassantKing ==
  <<"4", "k", "3", "/", "3", "p", "4", "/", "8", "/", "4", "P", "2", "K", "/", "8", "/", "8", "/", "8", "/", "8", " ", "b", " ", "-", " ", "-">>

\* "4k3/3p4/8/r3P2K/8/8/8/8 b - -": after d7d5 only the two pawns stand between the rook on a5 and the king
FenEnPassantRook ==
  <<"4", "k", "3", "/", "3", "p", "4", "/", "8", "/", "r", "3", "P", "2", "K", "/", "8", "/", "8", "/", "8", "/", "8", " ", "b", " ", "-", " ", "-">>

\* "7k/5K1P/6P1/8/8/8/8/8 w - -": g7 is mate, Kf8 is stalemate
FenPawnMate ==
  <<"7", "k", "/", "5", "K", "1", "P", "/", "6", "P", "1", "/", "8", "/", "8", "/", "8", "/", "8", "/", "8", " ", "w", " ", "-", " ", "-">>

\* "4k3/3p4/5p2/4P3/8/8/8/4K3 b - -": after d7d5 the pawn e5 can take on f6 or, en passant, on d6
FenEnPassantChoice ==
  <<"4", "k", "3", "/", "3", "p", "4", "/", "5", "p", "2", "/", "4", "P", "3", "/", "8", "/", "8", "/", "8", "/", "4", "K", "3", " ", "b", " ", "-", " ", "-">>

\* "4k3/3p4/8/r3PKNr/8/8/8/8 b - -": as before with the king on f5, and a second rook on h5 behind the knight on g5
FenEnPassantTwoRooks ==
  <<"4", "k", "3", "/", "3", "p", "4", "/", "8", "/", "r", "3", "P", "K", "N", "r", "/", "8", "/", "8", "/", "8", "/", "8", " ", "b", " ", "-", " ", "-">>

\* "4r1k1/8/8/8/7b/8/4NB2/4K3 w - -": the knight e2 is pinned by the rook e8, the bishop f2 by the bishop h4
FenPins ==
  <<"4", "r", "1", "k", "1", "/", "8", "/", "8", "/", "8", "/", "7", "b", "/", "8", "/", "4", "N", "B", "2", "/", "4", "K", "3", " ", "w", " ", "-", " ", "-">>

\* "6k1/8/8/8/8/8/8/4KBNr w - -": two pieces stand between the king and the rook h1
FenPinRank ==
  <<"6", "k", "1", "/", "8", "/", "8", "/", "8", "/", "8", "/", "8", "/", "8", "/", "4", "K", "B", "N", "r", " ", "w", " ", "-", " ", "-">>

\* "7k/7n/8/8/8/2b5/3P4/4K2Q b - -": the black knight h7 is pinned by the queen h1, the white pawn d2 by the bishop c3
FenPinBoth ==
  <<"7", "k", "/", "7", "n", "/", "8", "/", "8", "/", "8", "/", "2", "b", "5", "/", "3", "P", "4", "/", "4", "K", "2", "Q", " ", "b", " ", "-", " ", "-">>

\* "3r2k1/8/8/8/8/8/8/3BK3 w - -": the bishop next to the king is attacked by a rook that is not on a line of the king
FenPinOffLine ==
  <<"3", "r", "2", "k", "1", "/", "8", "/", "8", "/", "8", "/", "8", "/", "8", "/", "8", "/", "3", "B", "K", "3", " ", "w", " ", "-", " ", "-">>

\* "4r1k1/8/8/7B/8/8/3N4/4K3 w - -": the rook e8 checks; the knight can interpose on e4, the bishop on e2 or take the rook
FenCheckRook ==
  <<"4", "r", "1", "k", "1", "/", "8", "/", "8", "/", "7", "B", "/", "8", "/", "8", "/", "3", "N", "4", "/", "4", "K", "3", " ", "w", " ", "-", " ", "-">>

\* "6k1/8/8/8/8/3n4/2P5/R3K3 w - -": the knight d3 checks; the pawn c2 can take it
FenCheckKnight ==
  <<"6", "k", "1", "/", "8", "/", "8", "/", "8", "/", "8", "/", "3", "n", "4", "/", "2", "P", "5", "/", "R", "3", "K", "3", " ", "w", " ", "-", " ", "-">>

\* "1n2k3/3P4/8/8/8/8/8/4K3 b - -": the pawn d7 checks the black king; the knight b8 can take it
FenCheckPawn ==
  <<"1", "n", "2", "k", "3", "/", "3", "P", "4", "/", "8", "/", "8", "/", "8", "/", "8", "/", "8", "/", "4", "K", "3", " ", "b", " ", "-", " ", "-">>

\* "4r1k1/8/8/8/4n3/8/4K3/8 b - -": a knight move to c3 or g3 gives check and uncovers the rook e8
FenDiscovered ==
  <<"4", "r", "1", "k", "1", "/", "8", "/", "8", "/", "8", "/", "4", "n", "3", "/", "8", "/", "4", "K", "3", "/", "8", " ", "b", " ", "-", " ", "-">>

\* "4r1k1/8/8/8/8/3n4/8/R3K2R w KQ -": rook and knight both check the king that holds both castling rights
FenDoubleCheck ==
  <<"4", "r", "1", "k", "1", "/", "8", "/", "8", "/", "8", "/", "8", "/", "3", "n", "4", "/", "8", "/", "R", "3", "K", "2", "R", " ", "w", " ", "K", "Q", " ", "-">>

\* "4k3/8/8/8/8/8/p7/1N2K3 b - -": the black pawn promotes on a1 or by capturing b1
FenPromotionBlack ==
  <<"4", "k", "3", "/", "8", "/", "8", "/", "8", "/", "8", "/", "8", "/", "p", "7", "/", "1", "N", "2", "K", "3", " ", "b", " ", "-", " ", "-">>

\* "1r2k1r1/8/8/8/8/8/8/R3K2R w KQ -": b1 and g1 are attacked by the black rooks
FenCastleAttacked ==
  <<"1", "r", "2", "k", "1", "r", "1", "/", "8", "/", "8", "/", "8", "/", "8", "/", "8", "/", "8", "/", "R", "3", "K", "2", "R", " ", "w", " ", "K", "Q", " ", "-">>

\* "4k3/P7/8/8/8/8/8/R3K3 w Q -": the a-pawn promotes while white holds the queenside right
FenPromotionRights ==
  <<"4", "k", "3", "/", "P", "7", "/", "8", "/", "8", "/", "8", "/", "8", "/", "8", "/", "R", "3", "K", "3", " ", "w", " ", "Q", " ", "-">>

\* ------------------------------------------------------------------------
\* Comparing boards.  The piece lists are unordered collections: UnmakeMove
\* re-appends the pieces it puts back, so the order need not come back.
\* ------------------------------------------------------------------------
Count(seq, x) == Cardinality({i \in 1..Len(seq) : seq[i] = x})

SameElements(a, b) ==
  /\ Len(a) = Len(b)
  /\ \A x \in Range(a) \cup Range(b) : Count(a, x) = Count(b, x)

BoardEq(a, b) ==
  /\ a.fault = NoFault
  /\ b.fault = NoFault
  /\ a.squareContents = b.squareContents
  /\ SameElements(a.whitePieces, b.whitePieces)
  /\ SameElements(a.blackPieces, b.blackPieces)
  /\ a.castlingRights = b.castlingRights
  /\ a.hasEnPassantTarget = b.hasEnPassantTarget
  /\ (a.hasEnPassantTarget => a.enPassantTarget = b.enPassantTarget)
  /\ a.blackToMove = b.blackToMove

KingCount(board, isBlack) ==
  Cardinality({i \in 1..Len(GetPiecesForSide(board, isBlack)) :
                 GetPiecesForSide(board, isBlack)[i].Kind = King})

OneKingPerSide(board) == KingCount(board, FALSE) = 1 /\ KingCount(board, TRUE) = 1

\* ------------------------------------------------------------------------
\* The rules of chess, written without the generator's masks: every move a
\* piece can make by its movement rule, kept when the mover's king is not
\* attacked afterwards.
\* ------------------------------------------------------------------------
RuleAttacks(board, piece, sq) ==
  LET all == GetPiecesBitboard(board, FALSE) \cup GetPiecesBitboard(board, TRUE)
  IN CASE piece.Kind = Pawn ->
            sq \in (IF piece.IsBlack THEN blackPawnAttackSets[piece.Square + 1]
                                     ELSE whitePawnAttackSets[piece.Square + 1])
       [] piece.Kind = Knight -> sq \in knightAttackSets[piece.Square + 1]
       [] piece.Kind = King -> sq \in kingAttackSets[piece.Square + 1]
       [] piece.Kind = Rook -> sq \in rookAttacks(piece.Square, all)
       [] piece.Kind = Bishop -> sq \in bishopAttacks(piece.Square, all)
       [] OTHER -> sq \in (rookAttacks(piece.Square, all) \cup bishopAttacks(piece.Square, all))

RuleAttacked(board, sq, byBlack) ==
  \E piece \in Range(GetPiecesForSide(board, byBlack)) : RuleAttacks(board, piece, sq)

RuleDestinations(board, piece) ==
  LET black == piece.IsBlack
      friendly == GetPiecesBitboard(board, black)
      enemy == GetPiecesBitboard(board, ~black)
      all == friendly \cup enemy
      step == IF black THEN 1 ELSE -1
      startRank == IF black THEN Rank7 ELSE Rank2
      file == File(piece.Square)
      rank == Rank(piece.Square)
      one == SquareAt(file, rank + step)
      two == SquareAt(file, rank + 2 * step)
      diagonals == {sq \in Squares : Rank(sq) = rank + step
                                       /\ (File(sq) = file + 1 \/ File(sq) = file - 1)}
  IN IF piece.Kind = Pawn
       THEN (IF rank + step \in 0..7 /\ one \notin all THEN {one} ELSE {})
            \cup (IF rank = startRank /\ one \notin all /\ two \notin all THEN {two} ELSE {})
            \cup {sq \in diagonals :
                    sq \in enemy \/ (board.hasEnPassantTarget /\ sq = board.enPassantTarget)}
       ELSE {sq \in Squares : RuleAttacks(board, piece, sq)} \ friendly

RulePieceMoves(board, piece) ==
  LET promotionRank == IF piece.IsBlack THEN Rank1 ELSE Rank8
  IN UNION {IF piece.Kind = Pawn /\ Rank(sq) = promotionRank
              THEN {MkPromotion(piece.Square, sq, kind) : kind \in {Queen, Rook, Bishop, Knight}}
              ELSE {MkMove(piece.Square, sq)} : sq \in RuleDestinations(board, piece)}

RuleCastlingMoves(board) ==
  LET black == board.blackToMove
      backRank == IF black THEN Rank8 ELSE Rank1
      rights == GetCastlingRights(board, black)
      at(file) == SquareAt(file, backRank)
      holds(file, kind) == /\ HasPiece(board, at(file))
                           /\ GetPiece(board, at(file))[1].Kind = kind
                           /\ GetPiece(board, at(file))[1].IsBlack = black
      safe(file) == ~RuleAttacked(board, at(file), ~black)
      empty(file) == ~HasPiece(board, at(file))
  IN (IF /\ rights[1] /\ holds(FileE, King) /\ holds(FileH, Rook)
         /\ empty(FileF) /\ empty(FileG)
         /\ safe(FileE) /\ safe(FileF) /\ safe(FileG)
        THEN {MkMove(at(FileE), at(FileG))} ELSE {})
     \cup
     (IF /\ rights[2] /\ holds(FileE, King) /\ holds(FileA, Rook)
         /\ empty(FileD) /\ empty(FileC) /\ empty(FileB)
         /\ safe(FileE) /\ safe(FileD) /\ safe(FileC)
        THEN {MkMove(at(FileE), at(FileC))} ELSE {})

RuleLegalMoves(board) ==
  LET black == board.blackToMove
      pseudo == UNION {RulePieceMoves(board, piece) :
                         piece \in Range(GetPiecesForSide(board, black))}
      keepsKingSafe(move) ==
        LET after == MakeMove(board, move).board
        IN ~RuleAttacked(after, GetKingSquare(after, black), ~black)
  IN {move \in pseudo : keepsKingSafe(move)} \cup RuleCastlingMoves(board)

\* ------------------------------------------------------------------------
\* The state machine
\* ------------------------------------------------------------------------
\* most moves on the unmove stack at once
MaxPly == 2
\* most MakeMove/UnmakeMove calls in one run
MaxOps == 4
\* deepest search(depth, ...) called directly; Think always uses searchDepth
MaxDepth == 2
\* most SetPiece/SetEmpty calls in one run of the board editor
MaxEdits == 4

VARIABLES
  fen,            \* the string the board was loaded from (<<>>: NewBoard)
  board,          \* the *Board everything operates on
  unmoveHistory,  \* the stack of Unmove tokens (src/botv1/evaluation.go unmoveHistory)
  snapshots,      \* history: the board as it was before each move on the stack
  ops,            \* history: number of MakeMove/UnmakeMove calls so far
  edits,          \* history: number of SetPiece/SetEmpty calls so far
  out             \* what the last call returned, and the board it was called on

vars == <<fen, board, unmoveHistory, snapshots, ops, edits, out>>

NoOut ==
  [op |-> "load", pre |-> NewBoard, move |-> ZeroMove, eval |-> 0,
   depth |-> 0, alpha |-> 0, beta |-> 0, text |-> <<>>, reload |-> NewBoard,
   reloadFailed |-> FALSE,
   loaded |-> [board |-> <<>>, err |-> "", panic |-> FALSE],
   square |-> 0, file |-> 0, rank |-> 0, name |-> <<>>, err |-> "",
   nodeCount |-> 0,
   isRook |-> FALSE, entries |-> <<>>, occupancy |-> EmptyBitboard,
   attackSet |-> EmptyBitboard, key |-> 0, panic |-> FALSE, isCheck |-> FALSE]

Fens ==
  {FenPawnStart, FenEnPassant, FenEnPassantQueen, FenEnPassantCheck, FenCastle,
   FenPromotion, FenMateInOne, FenStalemate, FenRightsKnight, FenRightsEmpty,
   FenSplitRuns}

SearchFens ==
  {FenKingPawn, FenPromotion, FenMateInOne, FenStalemate, FenRightsKnight, FenRightsEmpty}

\* the positions the bot is asked to think about at full depth
ThinkFens == {FenKingPawn, FenRightsEmpty}

\* the (alpha, beta) windows search is called with directly
Windows == {<<-INF, INF>>, <<-100, 100>>}

\* what the board editor places: <<square, kind, isBlack>>
EditPlacements ==
  {<<SquareAt(FileE, Rank1), King, FALSE>>, <<SquareAt(FileE, Rank8), King, TRUE>>,
   <<SquareAt(FileD, Rank2), Pawn, FALSE>>, <<SquareAt(FileE, Rank4), Pawn, TRUE>>,
   <<SquareAt(FileA, Rank7), Pawn, FALSE>>, <<SquareAt(FileE, Rank4), Pawn, FALSE>>}

\* the squares the board editor clears
EditSquares == {SquareAt(FileE, Rank4), SquareAt(FileD, Rank2), SquareAt(FileA, Rank8)}

InitFrom(fens) ==
  /\ fen \in fens
  /\ board = LoadFen(fen).board[1]
  /\ unmoveHistory = <<>>
  /\ snapshots = <<>>
  /\ ops = 0
  /\ edits = 0
  /\ out = NoOut

Init == InitFrom(Fens)

InitSearch == InitFrom(SearchFens)

InitEdit ==
  /\ fen = <<>>
  /\ board = NewBoard
  /\ unmoveHistory = <<>>
  /\ snapshots = <<>>
  /\ ops = 0
  /\ edits = 0
  /\ out = NoOut

\* a generated move is played (perft, search and the GUI all play generated moves)
DoMakeMove ==
  /\ board.fault = NoFault
  /\ ops < MaxOps
  /\ Len(unmoveHistory) < MaxPly
  /\ IF GetLegalMovesPanics(board)
       THEN /\ board' = Abort(board, "index out of range")
            /\ out' = [NoOut EXCEPT !.op = "generate", !.pre = board]
            /\ UNCHANGED <<unmoveHistory, snapshots>>
       ELSE \E move \in Range(GetLegalMoves(board)) :
              \E made \in {MakeMove(board, move)} :
                /\ board' = made.board
                /\ unmoveHistory' = Append(unmoveHistory, made.unmove)
                /\ snapshots' = Append(snapshots, board)
                /\ out' = [NoOut EXCEPT !.op = "make", !.pre = board, !.move = move]
  /\ ops' = ops + 1
  /\ UNCHANGED <<fen, edits>>

\* onBKeyDown: the last move is taken back
DoUnmakeMove ==
  /\ board.fault = NoFault
  /\ ops < MaxOps
  /\ Len(unmoveHistory) > 0
  /\ board' = UnmakeMove(board, unmoveHistory[Len(unmoveHistory)])
  /\ unmoveHistory' = SubSeq(unmoveHistory, 1, Len(unmoveHistory) - 1)
  /\ snapshots' = SubSeq(snapshots, 1, Len(snapshots) - 1)
  /\ out' = [NoOut EXCEPT !.op = "unmake", !.pre = snapshots[Len(snapshots)],
                          !.move = MkMove(unmoveHistory[Len(unmoveHistory)].source,
                                          unmoveHistory[Len(unmoveHistory)].destination)]
  /\ ops' = ops + 1
  /\ UNCHANGED <<fen, edits>>

\* perft's legality test after a move: DetectIllegalMove is called on the board
DoDetectIllegalMove ==
  /\ board.fault = NoFault
  /\ out.op = "make"
  /\ board' = DetectIllegalMoveBoard(board)
  /\ out' = [NoOut EXCEPT !.op = "DetectIllegalMove", !.pre = board, !.move = out.move,
                          !.isCheck = DetectIllegalMove(board)]
  /\ UNCHANGED <<fen, unmoveHistory, snapshots, ops, edits>>

\* what DoFen records of a text read back
Reloaded(pre, text, loaded) ==
  [NoOut EXCEPT !.op = "fen", !.pre = pre, !.text = text,
                !.reloadFailed = (loaded.panic \/ loaded.err /= "" \/ loaded.board = <<>>),
                !.reload = IF loaded.panic \/ loaded.err /= "" \/ loaded.board = <<>>
                             THEN NewBoard ELSE loaded.board[1]]

\* the board is written out and the text is read back
DoFen ==
  /\ board.fault = NoFault
  /\ out.op /= "fen"
  /\ \E text \in {Fen(board)} : out' = Reloaded(board, text, LoadFen(text))
  /\ UNCHANGED <<fen, board, unmoveHistory, snapshots, ops, edits>>

DoEvaluate ==
  /\ board.fault = NoFault
  /\ out.op /= "evaluate"
  /\ out' = [NoOut EXCEPT !.op = "evaluate", !.pre = board, !.eval = evaluate(board)]
  /\ UNCHANGED <<fen, board, unmoveHistory, snapshots, ops, edits>>

\* search is called on the board with a depth and a window
DoSearch ==
  /\ board.fault = NoFault
  /\ out.op \notin {"search", "think"}
  /\ Len(unmoveHistory) <= 1
  /\ \E depth \in 0..MaxDepth : \E window \in Windows :
       \E found \in {search(depth, board, window[1], window[2])} :
         /\ board' = found.board
         /\ out' = [NoOut EXCEPT !.op = "search", !.pre = board, !.move = found.bestMove,
                                 !.eval = found.bestEval, !.depth = depth,
                                 !.alpha = window[1], !.beta = window[2]]
  /\ UNCHANGED <<fen, unmoveHistory, snapshots, ops, edits>>

\* the bot is asked for its move
DoThink ==
  /\ board.fault = NoFault
  /\ fen \in ThinkFens
  /\ ops = 0
  /\ out.op \notin {"search", "think"}
  /\ \E found \in {Think(board)} :
       /\ board' = found.board
       /\ out' = [NoOut EXCEPT !.op = "think", !.pre = board, !.move = found.bestMove,
                               !.eval = found.bestEval, !.depth = searchDepth,
                               !.alpha = -INF, !.beta = INF]
  /\ UNCHANGED <<fen, unmoveHistory, snapshots, ops, edits>>

\* the board editor places a piece
DoSetPiece ==
  /\ board.fault = NoFault
  /\ edits < MaxEdits
  /\ Len(unmoveHistory) = 0
  /\ \E placement \in EditPlacements :
       /\ board' = SetPiece(board, placement[1], placement[2], placement[3])
       /\ out' = [NoOut EXCEPT !.op = "set", !.pre = board]
  /\ edits' = edits + 1
  /\ UNCHANGED <<fen, unmoveHistory, snapshots, ops>>

\* the board editor clears a square
DoSetEmpty ==
  /\ board.fault = NoFault
  /\ edits < MaxEdits
  /\ Len(unmoveHistory) = 0
  /\ \E sq \in EditSquares :
       /\ board' = SetEmpty(board, sq)
       /\ out' = [NoOut EXCEPT !.op = "empty", !.pre = board]
  /\ edits' = edits + 1
  /\ UNCHANGED <<fen, unmoveHistory, snapshots, ops>>

\* moves are played and taken back
Next == DoMakeMove \/ DoUnmakeMove

Spec == Init /\ [][Next]_vars

\* moves are played; the positions are evaluated and written out
NextObserve == DoMakeMove \/ DoFen \/ DoEvaluate

SpecObserve == Init /\ [][NextObserve]_vars

NextSearch == DoMakeMove \/ DoSearch \/ DoThink

SpecSearch == InitSearch /\ [][NextSearch]_vars

\* searches from small positions: a king and pawn ending, a promotion with a
\* capture, a mate in one next to a stalemate
PruningFens == {FenKingPawn, FenPromotion, FenPawnMate}

InitPruning == InitFrom(PruningFens)

SpecPruning == InitPruning /\ [][NextSearch]_vars

NextEdit == DoSetPiece \/ DoSetEmpty \/ DoMakeMove \/ DoUnmakeMove

SpecEdit == InitEdit /\ [][NextEdit]_vars

\* ------------------------------------------------------------------------
\* Reading FEN strings that need not be well formed (testPosition, divide)
\* ------------------------------------------------------------------------
\* "4k3/8/8/8/8/8/8/4K3"
PlacementKings ==
  <<"4", "k", "3", "/", "8", "/", "8", "/", "8", "/", "8", "/", "8", "/", "8", "/", "4", "K", "3">>

\* str with char put in after its first pos characters
Inserted(str, pos, char) ==
  SubSeq(str, 1, pos) \o <<char>> \o SubSeq(str, pos + 1, Len(str))

\* the characters put into the placement field
LoadChars == {"x", "?", "-", "9", "1", "P", "n", "/"}

\* the placement fields read: the two kings, and the two kings with one
\* character put in anywhere
LoadPlacements ==
  {PlacementKings}
    \cup {Inserted(PlacementKings, pos, char) : pos \in 0..Len(PlacementKings), char \in LoadChars}

\* the side-to-move tokens read
LoadSides == {<<"w">>, <<"b">>, <<"x">>, <<"W">>, <<"w", "b">>, <<>>}

LoadInputs ==
  {placement \o <<" ">> \o side \o <<" ">> \o <<"K", "q">> :
     placement \in LoadPlacements, side \in LoadSides}

InitLoad ==
  /\ fen \in LoadInputs
  /\ board = NewBoard
  /\ unmoveHistory = <<>>
  /\ snapshots = <<>>
  /\ ops = 0
  /\ edits = 0
  /\ out = NoOut

\* testPosition / divide: the string is read; the board is used when LoadFen
\* returned one
DoLoadFen ==
  /\ board.fault = NoFault
  /\ out.op /= "LoadFen"
  /\ \E loaded \in {LoadFen(fen)} :
       /\ out' = [NoOut EXCEPT !.op = "LoadFen", !.pre = board, !.loaded = loaded]
       /\ board' = IF loaded.panic THEN Abort(board, "index out of range")
                   ELSE IF loaded.board = <<>> THEN board
                   ELSE loaded.board[1]
  /\ UNCHANGED <<fen, unmoveHistory, snapshots, ops, edits>>

\* a string is read, and the board it gave is written out
NextLoad == DoLoadFen \/ DoFen

SpecLoad == InitLoad /\ [][NextLoad]_vars

\* ------------------------------------------------------------------------
\* Squares and their names (the package's tests call these one at a time)
\* ------------------------------------------------------------------------
\* the value of a byte of a string
ByteOf(char) ==
  IF IsDigit(char) THEN 47 + IndexIn(Digits, char)
  ELSE IF IsUpper(char) THEN 64 + IndexIn(UpperLetters, char)
  ELSE IF IsLower(char) THEN 96 + IndexIn(LowerLetters, char)
  ELSE CASE char = " " -> 32
         [] char = "-" -> 45
         [] char = "/" -> 47
         [] char = ":" -> 58
         [] char = "?" -> 63
         [] char = "@" -> 64
         [] OTHER -> 123

\* string([]rune{code}) for the codes of digits and lower-case letters
RuneOf(code) ==
  IF code >= 48 /\ code <= 57 THEN Digits[code - 47]
  ELSE IF code >= 97 /\ code <= 122 THEN LowerLetters[code - 96]
  ELSE "?"

\* (Square, error): err "" is nil.  name[0] - 'a' and '8' - name[1] are
\* byte subtractions
SquareWithAlgebraicName(name) ==
  IF Len(name) /= 2 THEN [square |-> A1, err |-> "name must be two bytes"]
  ELSE LET fileIndex == (ByteOf(name[1]) - 97) % 256
           rankIndex == (56 - ByteOf(name[2])) % 256
       IN IF fileIndex < 0 \/ fileIndex >= 8 THEN [square |-> A1, err |-> "bad file"]
          ELSE IF rankIndex < 0 \/ rankIndex >= 8 THEN [square |-> A1, err |-> "bad rank"]
          ELSE [square |-> SquareAt(fileIndex, rankIndex), err |-> ""]

\* AlgebraicName with the rank digit counted from the top rank
AlgebraicNameRankDown(sq) ==
  IF sq >= 64 THEN [name |-> <<>>, err |-> "bad square"]
  ELSE [name |-> <<RuneOf(97 + File(sq)), RuneOf(49 + Rank(sq))>>, err |-> ""]

\* (string, error)
AlgebraicName(sq) ==
  IF sq >= 64 THEN [name |-> <<>>, err |-> "bad square"]
  ELSE [name |-> <<RuneOf(97 + File(sq)), RuneOf(56 - Rank(sq))>>, err |-> ""]

\* the values of a Square (uint8)
Uint8 == 0..255

\* the File and Rank arguments SquareAt is called with
FileArgs == -1..8

RankArgs == -1..8

\* the bytes names are made of
NameChars == {"a", "b", "h", "i", "@", "A", "0", "1", "8", "9"}

\* the names parsed: every string of up to 3 of these bytes
Names ==
  {<<>>} \cup {<<c>> : c \in NameChars}
    \cup {<<c, d>> : c \in NameChars, d \in NameChars}
    \cup {<<c, d, e>> : c \in {"a", "i"}, d \in {"1", "9"}, e \in NameChars}

DoSquareAt ==
  /\ \E file \in FileArgs : \E rank \in RankArgs :
       out' = [NoOut EXCEPT !.op = "SquareAt", !.file = file, !.rank = rank,
                            !.square = SquareAt(file, rank)]
  /\ UNCHANGED <<fen, board, unmoveHistory, snapshots, ops, edits>>

\* sq.File() and sq.Rank()
DoFileRank ==
  /\ \E sq \in Uint8 :
       out' = [NoOut EXCEPT !.op = "FileRank", !.square = sq,
                            !.file = File(sq), !.rank = Rank(sq)]
  /\ UNCHANGED <<fen, board, unmoveHistory, snapshots, ops, edits>>

DoAlgebraicName ==
  /\ \E sq \in Uint8 : \E named \in {AlgebraicName(sq)} :
       out' = [NoOut EXCEPT !.op = "AlgebraicName", !.square = sq,
                            !.name = named.name, !.err = named.err]
  /\ UNCHANGED <<fen, board, unmoveHistory, snapshots, ops, edits>>

DoSquareWithAlgebraicName ==
  /\ \E name \in Names : \E parsed \in {SquareWithAlgebraicName(name)} :
       out' = [NoOut EXCEPT !.op = "SquareWithAlgebraicName", !.name = name,
                            !.square = parsed.square, !.err = parsed.err]
  /\ UNCHANGED <<fen, board, unmoveHistory, snapshots, ops, edits>>

NextSquares == DoSquareAt \/ DoFileRank \/ DoAlgebraicName \/ DoSquareWithAlgebraicName

SpecSquares == InitEdit /\ [][NextSquares]_vars

\* ------------------------------------------------------------------------
\* Play from positions with castling rights
\* ------------------------------------------------------------------------
CastleFens ==
  {FenCastle, FenCastleBoth, FenCastleAttacked, FenPromotionRights, FenRightsKnight,
   FenPawnStart}

InitCastle == InitFrom(CastleFens)

SpecCastle == InitCastle /\ [][Next]_vars

\* ------------------------------------------------------------------------
\* Castling: generation, execution and taking back
\* ------------------------------------------------------------------------
CastlingFens ==
  {FenCastle, FenCastleShielded, FenRookGone, FenQueensideAttacked, FenRightsKnight}

InitCastling == InitFrom(CastlingFens)

SpecCastling == InitCastling /\ [][Next]_vars

\* ------------------------------------------------------------------------
\* Play from positions where a double push offers an en-passant capture
\* ------------------------------------------------------------------------
EnPassantFens ==
  {FenEnPassant, FenEnPassantKing, FenEnPassantRook, FenEnPassantTwoRooks,
   FenEnPassantChoice}

InitEnPassant == InitFrom(EnPassantFens)

SpecEnPassant == InitEnPassant /\ [][Next]_vars

\* ------------------------------------------------------------------------
\* Play from positions with pinned pieces
\* ------------------------------------------------------------------------
PinFens == {FenPins, FenPinRank, FenPinBoth, FenPinOffLine}

InitPins == InitFrom(PinFens)

SpecPins == InitPins /\ [][Next]_vars

\* ------------------------------------------------------------------------
\* Play from positions where the king is, or is about to be, in check
\* ------------------------------------------------------------------------
CheckFens == {FenCheckRook, FenCheckKnight, FenCheckPawn, FenDiscovered, FenDoubleCheck}

InitChecks == InitFrom(CheckFens)

SpecChecks == InitChecks /\ [][Next]_vars

\* ------------------------------------------------------------------------
\* Moves are played and tested with DetectIllegalMove, as perft does
\* ------------------------------------------------------------------------
IsCheckFens == {FenCheckKnight, FenCheckPawn, FenDiscovered, FenEnPassantTwoRooks}

InitIsCheck == InitFrom(IsCheckFens)

NextIsCheck == DoMakeMove \/ DoUnmakeMove \/ DoDetectIllegalMove

SpecIsCheck == InitIsCheck /\ [][NextIsCheck]_vars

\* ------------------------------------------------------------------------
\* Play from positions where a pawn is about to promote
\* ------------------------------------------------------------------------
PromotionFens == {FenPromotion, FenPromotionBlack, FenPromotionRights}

InitPromotion == InitFrom(PromotionFens)

SpecPromotion == InitPromotion /\ [][Next]_vars

\* ------------------------------------------------------------------------
\* perft on the starting position
\* ------------------------------------------------------------------------
\* deepest perft called
MaxPerftDepth == 1

InitPerft == InitFrom({StartingPositionFen})

\* testPosition: perft is run on the board just loaded
DoPerft ==
  /\ board.fault = NoFault
  /\ ops = 0
  /\ \E depth \in 0..MaxPerftDepth : \E counted \in {perft(board, depth)} :
       /\ out' = [NoOut EXCEPT !.op = "perft", !.pre = board, !.depth = depth,
                               !.nodeCount = counted.nodeCount]
       /\ board' = counted.board
  /\ UNCHANGED <<fen, unmoveHistory, snapshots, ops, edits>>

\* perft is run on the starting position, and moves are played from it
NextPerft == DoPerft \/ DoMakeMove

SpecPerft == InitPerft /\ [][NextPerft]_vars

\* ------------------------------------------------------------------------
\* The sliding attack tables, one square at a time
\* ------------------------------------------------------------------------
\* the boards the tables are asked about: empty, full, the two back ranks
\* and pawn ranks of the starting position, and a few scattered pieces
LookupOccupancies ==
  {EmptyBitboard, Squares, (0..15) \cup (48..63), {2, 11, 19, 25, 28, 37, 42, 51, 60}}

\* one pass of the outer loop of CreateSlidingAttackTable, for the rook or
\* the bishop table
DoCreateSlidingAttackTable ==
  /\ out.op = "load"
  /\ \E isRook \in BOOLEAN : \E sq \in Squares :
       \E entries \in {IF isRook THEN CreateRookAttackTable(sq) ELSE CreateBishopAttackTable(sq)} :
         out' = [NoOut EXCEPT !.op = "CreateSlidingAttackTable", !.isRook = isRook,
                              !.square = sq, !.entries = entries]
  /\ UNCHANGED <<fen, board, unmoveHistory, snapshots, ops, edits>>

\* the table is asked for the attack set of its square on a board
DoGetAttackSet ==
  /\ out.op = "CreateSlidingAttackTable"
  /\ \E allPiecesBitboard \in LookupOccupancies :
       \E got \in {IF out.isRook
                     THEN GetAttackSet(out.entries, rookMagicNumbers, rookRelevantBits,
                                       rookRelevantOccupancyMasks, out.square, allPiecesBitboard)
                     ELSE GetAttackSet(out.entries, bishopMagicNumbers, bishopRelevantBits,
                                       bishopRelevantOccupancyMasks, out.square, allPiecesBitboard)} :
         out' = [out EXCEPT !.op = "GetAttackSet", !.occupancy = allPiecesBitboard,
                            !.attackSet = got.attackSet, !.key = got.key, !.panic = got.panic]
  /\ UNCHANGED <<fen, board, unmoveHistory, snapshots, ops, edits>>

NextMagic == DoCreateSlidingAttackTable \/ DoGetAttackSet

SpecMagic == InitEdit /\ [][NextMagic]_vars

\* ------------------------------------------------------------------------
\* Properties
\* ------------------------------------------------------------------------
\* the boards GetLegalMoves returns a list for: one king per side, no abort
Generates(b) == b.fault = NoFault /\ OneKingPerSide(b) /\ ~GetLegalMovesPanics(b)

\* the side that is not to move is not in check
OpponentSafe(b) == ~DetectIllegalMove(b)

\* UnmakeMove of the token MakeMove(move) returned gives b back
RoundTrip(b, move) ==
  \E made \in {MakeMove(b, move)} : BoardEq(UnmakeMove(made.board, made.unmove), b)

\* C1: on every board with one king per side, for every move GetLegalMoves
\* returns, MakeMove followed by UnmakeMove of the returned token leaves the
\* board equal to what it was: the 64 square contents, both piece lists as
\* multisets, the four castling rights, the en-passant state and the side to
\* move.
C1_MakeUnmakeRoundTrip ==
  Generates(board) => \A move \in Range(GetLegalMoves(board)) : RoundTrip(board, move)

\* C2: on every board with one king per side where the side not to move is
\* not in check, no move GetLegalMoves returns leaves the mover's own king
\* attacked: DetectIllegalMove is false after MakeMove.
C2_GeneratorSound ==
  (Generates(board) /\ OpponentSafe(board)) =>
    \A move \in Range(GetLegalMoves(board)) :
      \E after \in {MakeMove(board, move).board} :
        after.fault = NoFault => ~DetectIllegalMove(after)

\* C3: on every board with one king per side where the side not to move is
\* not in check, GetLegalMoves returns every move that obeys the movement
\* rules and does not leave the mover's king attacked, also when the king is
\* in single check.
C3_GeneratorComplete ==
  (Generates(board) /\ OpponentSafe(board)) =>
    RuleLegalMoves(board) \subseteq Range(GetLegalMoves(board))

\* C4: after any number of generated moves made one after another, each
\* UnmakeMove of the last outstanding token gives back the board as it was
\* before the matching MakeMove, so n unmakes after n makes give back the
\* first board and every intermediate board on the way.
C4_NestedTakeback == out.op = "unmake" => BoardEq(board, out.pre)

\* the squares holding a piece of one colour
OccupiedBy(b, isBlack) ==
  {sq \in Squares : HasPiece(b, sq) /\ GetPiece(b, sq)[1].IsBlack = isBlack}

\* one colour's piece list, square table and bitboard describe the same pieces
ListMatchesSquares(b, isBlack) ==
  /\ Len(GetPiecesForSide(b, isBlack)) = Cardinality(OccupiedBy(b, isBlack))
  /\ \A piece \in Range(GetPiecesForSide(b, isBlack)) :
       /\ piece.Square \in OccupiedBy(b, isBlack)
       /\ GetPiece(b, piece.Square)[1] = piece
  /\ \A sq \in OccupiedBy(b, isBlack) :
       /\ GetPiece(b, sq)[1].Square = sq
       /\ Count(GetPiecesForSide(b, isBlack), GetPiece(b, sq)[1]) = 1
  /\ GetPiecesBitboard(b, isBlack) = OccupiedBy(b, isBlack)

\* C5: after any sequence of SetPiece, SetEmpty, MakeMove of generated moves
\* and UnmakeMove of the matching tokens from NewBoard, each colour's piece
\* list has exactly one entry per square that colour occupies, every entry
\* equals the piece stored on its square, and GetPiecesBitboard has exactly
\* the bits of those squares, so the two bitboards are disjoint.
C5_RepresentationInvariant ==
  /\ board.fault = NoFault
  /\ ListMatchesSquares(board, FALSE)
  /\ ListMatchesSquares(board, TRUE)
  /\ GetPiecesBitboard(board, FALSE) \cap GetPiecesBitboard(board, TRUE) = {}

\* an en-passant capture has been made on an edited board and taken back
C5_Witness ==
  /\ fen = <<>>
  /\ out.op = "unmake"
  /\ out.move = MkMove(SquareAt(FileE, Rank4), SquareAt(FileD, Rank3))
  /\ board.hasEnPassantTarget
  /\ board.enPassantTarget = SquareAt(FileD, Rank3)
  /\ board.blackToMove
  /\ Len(board.whitePieces) = 2
  /\ Len(board.blackPieces) = 2

\* C6: when search, quiescenceSearch or Think returns, the board equals the
\* board at the time of the call, whatever the depth and the window and
\* whichever return path was taken.
C6_SearchLeavesBoard == out.op \in {"search", "think"} => BoardEq(board, out.pre)

\* C7: Think returns a move of GetLegalMoves for the board it was given
\* whenever that list is not empty, and the zero Move only when the root
\* position has no legal move.
C7_ThinkReturnsLegalMove ==
  out.op = "think" =>
    /\ board.fault = NoFault
    /\ Len(GetLegalMovesFlag(out.pre, FALSE)) > 0 =>
         out.move \in Range(GetLegalMovesFlag(out.pre, FALSE))
    /\ out.move = ZeroMove => Len(GetLegalMovesFlag(out.pre, FALSE)) = 0

\* what a root move is worth at a depth: the negated value of the position
\* it leads to
RootMoveValue(b, depth, move) ==
  -search(depth - 1, MakeMove(b, move).board, -INF, INF).bestEval

\* C8: for every board with a legal move, the move the top-level call
\* search(depth, board, -inf, +inf) returns attains the evaluation returned
\* with it, and that evaluation is the greatest value of any root move; also
\* when a root move mates at once and when every root move loses.
C8_ThinkReturnsBestMove ==
  (/\ out.op \in {"search", "think"}
   /\ out.depth >= 1
   /\ out.alpha = -INF
   /\ out.beta = INF
   /\ BoardEq(board, out.pre)
   /\ Len(GetLegalMovesFlag(out.pre, FALSE)) > 0)
  => /\ out.move \in Range(GetLegalMovesFlag(out.pre, FALSE))
     /\ RootMoveValue(out.pre, out.depth, out.move) = out.eval
     /\ \A move \in Range(GetLegalMovesFlag(out.pre, FALSE)) :
          RootMoveValue(out.pre, out.depth, move) <= out.eval

\* C9: evaluate returns -infinity for a board without legal moves whose side
\* to move is in check, exactly 0 for a board without legal moves whose side
\* to move is not in check, whatever the material, and a finite value for
\* every board with a legal move.
C9_TerminalEvaluation ==
  out.op = "evaluate" =>
    IF Len(GetLegalMoves(out.pre)) = 0
      THEN out.eval = (IF IsCheck(out.pre) THEN -INF ELSE 0)
      ELSE -INF < out.eval /\ out.eval < INF

\* a stalemate in which one side is material ahead has been evaluated
C9_Witness ==
  /\ out.op = "evaluate"
  /\ Len(GetLegalMoves(out.pre)) = 0
  /\ ~IsCheck(out.pre)
  /\ evaluatePieces(out.pre, FALSE) /= evaluatePieces(out.pre, TRUE)

\* the placement, side-to-move and castling fields of a FEN string, joined
\* as Fen() joins them
EmittedFields(str) ==
  Split(str, " ")[1] \o <<" ">> \o Split(str, " ")[2] \o <<" ">> \o Split(str, " ")[3]

\* the number of squares a row of the placement field describes
RECURSIVE RowSquares(_, _)
RowSquares(row, index) ==
  IF index > Len(row) THEN 0
  ELSE (IF IsDigit(row[index]) THEN DigitValue(row[index]) ELSE 1)
         + RowSquares(row, index + 1)

\* 8 rows of 8 squares, side w or b, castling - or a subset of KQkq in order
WellFormedFen(str) ==
  /\ Len(Split(str, " ")) >= 3
  /\ Len(Split(Split(str, " ")[1], "/")) = 8
  /\ \A row \in Range(Split(Split(str, " ")[1], "/")) :
       /\ RowSquares(row, 1) = 8
       /\ \A char \in Range(row) :
            char \in {"1", "2", "3", "4", "5", "6", "7", "8"}
              \/ ToLower(char) \in {"p", "n", "b", "r", "q", "k"}
  /\ Split(str, " ")[2] \in {<<"w">>, <<"b">>}
  /\ \/ Split(str, " ")[3] = <<"-">>
     \/ /\ Split(str, " ")[3] /= <<>>
        /\ Split(str, " ")[3] =
             SelectSeq(<<"K", "Q", "k", "q">>,
                       LAMBDA char : ContainsRune(Split(str, " ")[3], char))

\* no row writes a run of empty squares as two digits in a row
MaximalRuns(str) ==
  \A i \in 1..(Len(Split(str, " ")[1]) - 1) :
    ~(IsDigit(Split(str, " ")[1][i]) /\ IsDigit(Split(str, " ")[1][i + 1]))

\* the parts of a board a FEN text carries
SameFenFields(a, b) ==
  /\ a.squareContents = b.squareContents
  /\ a.blackToMove = b.blackToMove
  /\ a.castlingRights = b.castlingRights

\* every board written by Fen() loads back with the same squares, side to
\* move and castling rights
BoardFenRoundTrip ==
  out.op = "fen" => ~out.reloadFailed /\ SameFenFields(out.reload, out.pre)

\* C10 as stated: for every FEN string of 8 rows of 8 squares with side w or
\* b and castling - or a subset of KQkq in order, with or without trailing
\* fields, LoadFen then Fen gives back its placement, side and castling
\* fields; and every board written by Fen() loads back with the same
\* squares, side to move and castling rights.
C10_FenRoundTrip ==
  /\ (out.op = "fen" /\ ops = 0 /\ WellFormedFen(fen)) => out.text = EmittedFields(fen)
  /\ BoardFenRoundTrip

\* C10 for placement fields in which every run of empty squares is written
\* as one digit: for every such well-formed FEN string LoadFen then Fen
\* gives back its placement, side and castling fields; and every board
\* written by Fen() loads back with the same squares, side to move and
\* castling rights.
C10_FenRoundTripMaximalRuns ==
  /\ (out.op = "fen" /\ ops = 0 /\ WellFormedFen(fen) /\ MaximalRuns(fen)) =>
       out.text = EmittedFields(fen)
  /\ BoardFenRoundTrip

\* a position loaded from a six-field FEN string with castling rights has
\* been written out again
C10_Witness ==
  /\ out.op = "fen"
  /\ ops = 0
  /\ WellFormedFen(fen)
  /\ MaximalRuns(fen)
  /\ Len(Split(fen, " ")) = 6
  /\ Split(fen, " ")[3] /= <<"-">>
  /\ out.text = EmittedFields(fen)

\* the placement field and the side-to-move token of the string read
PlacementField(str) == Split(str, " ")[1]

SideToMoveToken(str) == Split(str, " ")[2]

\* a character that is not a letter, a digit or '/'
HasInvalidCharacter(placement) ==
  \E char \in Range(placement) : ~IsDigit(char) /\ ~IsLetter(char) /\ char /= "/"

\* a letter that names no piece
HasUnknownLetter(placement) ==
  \E char \in Range(placement) :
    IsLetter(char) /\ ToLower(char) \notin {"p", "n", "b", "r", "q", "k"}

\* a row that describes more than 8 squares
FilePastH(placement) ==
  \E row \in Range(Split(placement, "/")) :
    (\A char \in Range(row) : IsDigit(char) \/ IsLetter(char)) /\ RowSquares(row, 1) > 8

\* more than 8 rows
RankPast1(placement) == Len(Split(placement, "/")) > 8

BadSideToMove(str) == SideToMoveToken(str) \notin {<<"w">>, <<"b">>}

\* LoadFen returned a nil board and a non-nil error, and did not abort
ReportedError(loaded) == loaded.board = <<>> /\ loaded.err /= "" /\ ~loaded.panic

\* C11: LoadFen returns a nil board and a non-nil error, without aborting,
\* for every input whose placement field has a character that is not a piece
\* letter, digit or '/', or an unknown piece letter, or data that runs past
\* file H or past rank 1, or whose side-to-move token is not w or b.
C11_LoadFenReportsErrors ==
  (/\ out.op = "LoadFen"
   /\ \/ HasInvalidCharacter(PlacementField(fen))
      \/ HasUnknownLetter(PlacementField(fen))
      \/ FilePastH(PlacementField(fen))
      \/ RankPast1(PlacementField(fen))
      \/ BadSideToMove(fen))
    => ReportedError(out.loaded)

\* the same for invalid characters, unknown letters and side-to-move tokens
\* in strings whose placement stays within 8 rows of 8 squares
LoadFenReportsLexicalErrors ==
  (/\ out.op = "LoadFen"
   /\ ~FilePastH(PlacementField(fen))
   /\ ~RankPast1(PlacementField(fen))
   /\ \/ HasInvalidCharacter(PlacementField(fen))
      \/ HasUnknownLetter(PlacementField(fen))
      \/ BadSideToMove(fen))
    => ReportedError(out.loaded)

\* C12: for every square s in 0..63, SquareAt(s.File(), s.Rank()) = s; for
\* every file f and rank r in 0..7, SquareAt(f, r).File() = f and
\* SquareAt(f, r).Rank() = r; the index is rank*8 + file with file A = 0 and
\* rank 8 = 0, so A8 = 0, H8 = 7, A1 = 56, B1 = 57, H1 = 63, A1.Rank() = 7
\* and A2.Rank() = 6.
C12_CoordinateMapping ==
  /\ (out.op = "FileRank" /\ out.square \in Squares) =>
       /\ SquareAt(out.file, out.rank) = out.square
       /\ out.square = out.rank * 8 + out.file
       /\ (out.square = A1 => out.rank = 7)
       /\ (out.square = A2 => out.rank = 6)
  /\ (out.op = "SquareAt" /\ out.file \in 0..7 /\ out.rank \in 0..7) =>
       /\ File(out.square) = out.file
       /\ Rank(out.square) = out.rank
       /\ out.square = out.rank * 8 + out.file
       /\ (out.file = FileA /\ out.rank = Rank8 => out.square = A8 /\ A8 = 0)
       /\ (out.file = FileH /\ out.rank = Rank8 => out.square = H8 /\ H8 = 7)
       /\ (out.file = FileA /\ out.rank = Rank1 => out.square = A1 /\ A1 = 56)
       /\ (out.file = FileB /\ out.rank = Rank1 => out.square = B1 /\ B1 = 57)
       /\ (out.file = FileH /\ out.rank = Rank1 => out.square = H1 /\ H1 = 63)
  /\ FileA = 0
  /\ Rank8 = 0

\* SquareAt(FileB, Rank1) has been computed
C12_Witness ==
  /\ out.op = "SquareAt"
  /\ out.file = FileB
  /\ out.rank = Rank1
  /\ out.square = B1

\* C13: for every square s in 0..63 AlgebraicName returns, without error,
\* the file letter a..h and the rank digit '8' minus the rank index, and
\* SquareWithAlgebraicName of that name returns s without error;
\* AlgebraicName returns an error for every index >= 64;
\* SquareWithAlgebraicName returns an error for every string whose length is
\* not 2, whose file character is outside a..h or whose rank character is
\* outside 1..8.
C13_AlgebraicNames ==
  /\ (out.op = "AlgebraicName" /\ out.square \in Squares) =>
       /\ out.err = ""
       /\ out.name = <<LowerLetters[File(out.square) + 1], Digits[(8 - Rank(out.square)) + 1]>>
       /\ SquareWithAlgebraicName(out.name) = [square |-> out.square, err |-> ""]
  /\ (out.op = "AlgebraicName" /\ out.square >= 64) => out.err /= ""
  /\ (out.op = "SquareWithAlgebraicName"
        /\ (\/ Len(out.name) /= 2
            \/ out.name[1] \notin {"a", "b", "c", "d", "e", "f", "g", "h"}
            \/ out.name[2] \notin {"1", "2", "3", "4", "5", "6", "7", "8"})) =>
       out.err /= ""

\* the square b1 has been named
C13_Witness ==
  /\ out.op = "AlgebraicName"
  /\ out.square = B1
  /\ out.name = <<"b", "1">>
  /\ out.err = ""

\* the relevant-occupancy mask of the square the table row was built for
RowMask == IF out.isRook THEN rookRelevantOccupancyMasks[out.square + 1]
           ELSE bishopRelevantOccupancyMasks[out.square + 1]

RowRelevantBits == IF out.isRook THEN rookRelevantBits[out.square + 1]
                   ELSE bishopRelevantBits[out.square + 1]

\* the ray-traced attack set of the row's square
RayTraced(occupancy) == IF out.isRook THEN rookAttacks(out.square, occupancy)
                        ELSE bishopAttacks(out.square, occupancy)

\* what the row returns for a board
RowLookup(occupancy) ==
  IF out.isRook
    THEN GetAttackSet(out.entries, rookMagicNumbers, rookRelevantBits,
                      rookRelevantOccupancyMasks, out.square, occupancy)
    ELSE GetAttackSet(out.entries, bishopMagicNumbers, bishopRelevantBits,
                      bishopRelevantOccupancyMasks, out.square, occupancy)

\* the lookup is in range and gives the ray-traced attack set
LookupExact(occupancy) ==
  \E got \in {RowLookup(occupancy)} :
    /\ ~got.panic
    /\ got.key < 2 ^ RowRelevantBits
    /\ got.attackSet = RayTraced(occupancy)

\* C14: for the rook and the bishop table built by CreateSlidingAttackTable
\* from the supplied magic numbers, relevant-bit counts and masks, for every
\* square and every occupancy, GetAttackSet equals the ray-traced attack set
\* and every index is below 2^relevantBits.  Checked for every subset of the
\* relevant mask, alone and with every square outside the mask occupied as
\* well, and for the boards looked up; as each index holds one attack set,
\* subsets that share an index have the same ray-traced attack set.
C14_MagicTables ==
  /\ out.op = "CreateSlidingAttackTable" =>
       \A occupancy \in SUBSET RowMask :
         LookupExact(occupancy) /\ LookupExact(occupancy \cup (Squares \ RowMask))
  /\ out.op = "GetAttackSet" =>
       /\ ~out.panic
       /\ out.key < 2 ^ RowRelevantBits
       /\ out.attackSet = RayTraced(out.occupancy)

\* the rook table has been asked about d4 on the board of the starting
\* position: the attack set stops at d7 and d2
C14_Witness ==
  /\ out.op = "GetAttackSet"
  /\ out.isRook
  /\ out.square = SquareAt(FileD, Rank4)
  /\ SquareAt(FileD, Rank8) \in out.occupancy
  /\ SquareAt(FileD, Rank7) \in out.attackSet
  /\ SquareAt(FileD, Rank2) \in out.attackSet
  /\ SquareAt(FileD, Rank8) \notin out.attackSet
  /\ SquareAt(FileD, Rank1) \notin out.attackSet

\* the moves of a list made by a piece of the given kind
MovesOfKind(b, moves, kind) ==
  {i \in 1..Len(moves) : GetPiece(b, moves[i].Source)[1].Kind = kind}

\* C15: on the board loaded from the starting-position FEN IsCheck() is false
\* and GetLegalMoves() returns exactly 20 distinct moves, 16 pawn moves and 4
\* knight moves and no castling, which is perft at depth 1.
C15_StartingPosition ==
  /\ (fen = StartingPositionFen /\ ops = 0 /\ out.op = "load") =>
       /\ ~IsCheck(board)
       /\ ~GetLegalMovesPanics(board)
       /\ Len(GetLegalMoves(board)) = 20
       /\ Cardinality(Range(GetLegalMoves(board))) = 20
       /\ Cardinality(MovesOfKind(board, GetLegalMoves(board), Pawn)) = 16
       /\ Cardinality(MovesOfKind(board, GetLegalMoves(board), Knight)) = 4
       /\ MovesOfKind(board, GetLegalMoves(board), King) = {}
  /\ (fen = StartingPositionFen /\ out.op = "perft" /\ out.depth = 1) =>
       /\ out.nodeCount = 20
       /\ out.nodeCount = Len(GetLegalMoves(out.pre))
       /\ ~IsCheck(out.pre)

\* perft at depth 1 has been run on the starting position
C15_Witness ==
  /\ fen = StartingPositionFen
  /\ out.op = "perft"
  /\ out.depth = 1
  /\ out.nodeCount = 20
  /\ BoardEq(board, out.pre)

\* the piece on the source square of a move
Mover(b, move) == GetPiece(b, move.Source)[1]

\* the castling rights a side is left with by a move of the given piece
\* from the given file, as the claim states them: <<kingside, queenside>>
RightsLeft(rights, kind, file) ==
  IF kind = King THEN <<FALSE, FALSE>>
  ELSE IF kind = Rook /\ file = FileA THEN <<rights[1], FALSE>>
  ELSE IF kind = Rook /\ file = FileH THEN <<FALSE, rights[2]>>
  ELSE rights

\* a move has been made from a board with a piece on its source square
MoveMade == out.op = "make" /\ board.fault = NoFault /\ HasPiece(out.pre, out.move.Source)

\* the mover's rights are those the piece on the source square leaves, and
\* the opponent's are unchanged
RightsUpdated ==
  /\ GetCastlingRights(board, out.pre.blackToMove) =
       RightsLeft(GetCastlingRights(out.pre, out.pre.blackToMove),
                  Mover(out.pre, out.move).Kind, File(out.move.Source))
  /\ GetCastlingRights(board, ~out.pre.blackToMove) =
       GetCastlingRights(out.pre, ~out.pre.blackToMove)

\* C16: in MakeMove a move whose source square holds a King clears both
\* castling rights of the mover, one whose source square holds a Rook on
\* file A clears the mover's queenside right, one whose source square holds
\* a Rook on file H clears the mover's kingside right, and every other move
\* (every pawn move, promotions included, every knight, bishop or queen
\* move, captures of rooks on their corners included) leaves all four rights
\* unchanged; the opponent's rights are never changed.
C16_CastlingRightsUpdate == MoveMade => RightsUpdated

\* the same for every move that is not a promotion
RightsUpdatedWithoutPromotion == (MoveMade /\ ~out.move.IsPromotion) => RightsUpdated

\* the move was a pawn's advance from its starting rank to the two-step rank
DoublePush(b, move) ==
  /\ Mover(b, move).Kind = Pawn
  /\ Rank(move.Source) = (IF Mover(b, move).IsBlack THEN Rank7 ELSE Rank2)
  /\ Rank(move.Destination) = (IF Mover(b, move).IsBlack THEN Rank5 ELSE Rank4)

\* C17: after MakeMove(m), hasEnPassantTarget is true if and only if m moved
\* a pawn from its colour's starting rank to the two-step rank, and then
\* enPassantTarget is the square on the source file on Rank3 / Rank6; after
\* every other move it is false, so a target is available only to the move
\* that follows the double push.  From "4k3/8/8/8/8/8/4P3/4K3 w - -" e2e4 is
\* legal and yields the target e3.
C17_EnPassantLifetime ==
  /\ MoveMade =>
       /\ board.hasEnPassantTarget <=> DoublePush(out.pre, out.move)
       /\ board.hasEnPassantTarget =>
            board.enPassantTarget =
              SquareAt(File(out.move.Source),
                       IF Mover(out.pre, out.move).IsBlack THEN Rank6 ELSE Rank3)
  /\ (fen = FenPawnStart /\ out.op = "load") =>
       MkMove(SquareAt(FileE, Rank2), SquareAt(FileE, Rank4)) \in Range(GetLegalMoves(board))
  /\ (fen = FenPawnStart /\ out.op = "make"
        /\ out.move = MkMove(SquareAt(FileE, Rank2), SquareAt(FileE, Rank4))) =>
       board.hasEnPassantTarget /\ board.enPassantTarget = SquareAt(FileE, Rank3)

\* after e2e4 set the target e3, a black reply has cleared it
C17_Witness ==
  /\ fen = FenPawnStart
  /\ out.op = "make"
  /\ Len(snapshots) = 2
  /\ snapshots[2].hasEnPassantTarget
  /\ snapshots[2].enPassantTarget = SquareAt(FileE, Rank3)
  /\ ~board.hasEnPassantTarget

\* the piece of the given kind and colour stands on the square
Stands(b, sq, kind, black) ==
  /\ HasPiece(b, sq)
  /\ GetPiece(b, sq)[1].Kind = kind
  /\ GetPiece(b, sq)[1].IsBlack = black

\* the move recorded in out is the mover's king going from E to the given
\* file on the mover's back rank
KingMoveFromE(file) ==
  /\ board.fault = NoFault
  /\ Stands(out.pre, out.move.Source, King, out.pre.blackToMove)
  /\ out.move.Source = SquareAt(FileE, BackRank(out.pre.blackToMove))
  /\ out.move.Destination = SquareAt(file, BackRank(out.pre.blackToMove))

\* the board after castling: king on kingFile, the rook gone from rookFrom
\* to rookTo, the mover's rights cleared, everything else as before
CastlingExecuted(kingFile, rookFrom, rookTo) ==
  LET black == out.pre.blackToMove
      back == BackRank(black)
  IN /\ Stands(out.pre, SquareAt(rookFrom, back), Rook, black)
     /\ Stands(board, SquareAt(kingFile, back), King, black)
     /\ Stands(board, SquareAt(rookTo, back), Rook, black)
     /\ ~HasPiece(board, SquareAt(FileE, back))
     /\ ~HasPiece(board, SquareAt(rookFrom, back))
     /\ GetCastlingRights(board, black) = <<FALSE, FALSE>>
     /\ GetCastlingRights(board, ~black) = GetCastlingRights(out.pre, ~black)
     /\ \A sq \in Squares \ {SquareAt(file, back) : file \in {FileE, kingFile, rookFrom, rookTo}} :
          GetPiece(board, sq) = GetPiece(out.pre, sq)

\* C18: MakeMove of the king move E->G on the mover's back rank moves the
\* friendly rook from H to F, and E->C moves it from A to D; afterwards the
\* king is on G/C, E and H/A are empty, both rights of the mover are cleared,
\* the opponent's rights and all other squares are unchanged; UnmakeMove of
\* the token puts king, rook and castling rights back.
C18_CastlingExecution ==
  /\ (out.op = "make" /\ KingMoveFromE(FileG)) => CastlingExecuted(FileG, FileH, FileF)
  /\ (out.op = "make" /\ KingMoveFromE(FileC)) => CastlingExecuted(FileC, FileA, FileD)
  /\ (out.op = "unmake" /\ (KingMoveFromE(FileG) \/ KingMoveFromE(FileC))) =>
       /\ BoardEq(board, out.pre)
       /\ Stands(board, out.move.Source, King, board.blackToMove)
       /\ Stands(board, SquareAt(IF File(out.move.Destination) = FileG THEN FileH ELSE FileA,
                                 BackRank(board.blackToMove)), Rook, board.blackToMove)

\* white has castled kingside, black castled queenside and took it back
C18_Witness ==
  /\ fen = FenCastleShielded
  /\ out.op = "unmake"
  /\ KingMoveFromE(FileC)
  /\ out.pre.blackToMove
  /\ Len(unmoveHistory) = 1
  /\ Stands(board, SquareAt(FileG, Rank1), King, FALSE)
  /\ Stands(board, SquareAt(FileF, Rank1), Rook, FALSE)
  /\ Stands(board, SquareAt(FileA, Rank8), Rook, TRUE)

\* the mover's back-rank square on the given file
BackSquare(b, file) == SquareAt(file, BackRank(b.blackToMove))

\* the move GetLegalMoves appends for castling towards the given file
CastlingMove(b, file) == MkMove(BackSquare(b, FileE), BackSquare(b, file))

CastlingAppended(b, file) ==
  CastlingMove(b, file) \in Range(CastlingMoves(b, MoveGenContext(b)))

\* an enemy piece attacks the mover's back-rank square on the given file
BackSquareAttacked(b, file) == RuleAttacked(b, BackSquare(b, file), ~b.blackToMove)

MoverInCheck(b) == RuleAttacked(b, GetKingSquare(b, b.blackToMove), ~b.blackToMove)

KingsideConditions(b) ==
  /\ (IF b.blackToMove THEN b.castlingRights.BlackKingside ELSE b.castlingRights.WhiteKingside)
  /\ ~HasPiece(b, BackSquare(b, FileF))
  /\ ~HasPiece(b, BackSquare(b, FileG))
  /\ ~BackSquareAttacked(b, FileF)
  /\ ~BackSquareAttacked(b, FileG)
  /\ Stands(b, BackSquare(b, FileH), Rook, b.blackToMove)
  /\ ~MoverInCheck(b)

\* C19: GetLegalMoves appends the kingside castling move (king E->G on the
\* mover's back rank) exactly when the mover holds the kingside right, F and
\* G on the back rank are empty, neither is attacked by an enemy piece, the
\* H square holds a rook of the mover's colour, and the mover's king is not
\* in check.
C19_KingsideCastling ==
  Generates(board) =>
    /\ CastlingAppended(board, FileG) <=> KingsideConditions(board)
    /\ CastlingAppended(board, FileG) =>
         CastlingMove(board, FileG) \in Range(GetLegalMoves(board))

\* white has castled kingside; black holds the right with f8 and g8 empty,
\* but the rook now on f1 attacks f8 and the move is not appended
C19_Witness ==
  /\ fen = FenCastleShielded
  /\ out.op = "make"
  /\ KingMoveFromE(FileG)
  /\ ~out.pre.blackToMove
  /\ KingsideConditions(out.pre)
  /\ board.castlingRights.BlackKingside
  /\ BackSquareAttacked(board, FileF)
  /\ ~CastlingAppended(board, FileG)

QueensideConditions(b) ==
  /\ (IF b.blackToMove THEN b.castlingRights.BlackQueenside ELSE b.castlingRights.WhiteQueenside)
  /\ ~HasPiece(b, BackSquare(b, FileB))
  /\ ~HasPiece(b, BackSquare(b, FileC))
  /\ ~HasPiece(b, BackSquare(b, FileD))
  /\ ~BackSquareAttacked(b, FileC)
  /\ ~BackSquareAttacked(b, FileD)
  /\ Stands(b, BackSquare(b, FileA), Rook, b.blackToMove)
  /\ ~MoverInCheck(b)

\* C20: GetLegalMoves appends the queenside castling move (king E->C on the
\* mover's back rank) exactly when the mover holds the queenside right, B, C
\* and D on the back rank are empty, neither C nor D is attacked by an enemy
\* piece, the A square holds a rook of the mover's colour, and the mover's
\* king is not in check; an enemy attack on B alone does not prevent it.
C20_QueensideCastling ==
  Generates(board) =>
    /\ CastlingAppended(board, FileC) <=> QueensideConditions(board)
    /\ CastlingAppended(board, FileC) =>
         CastlingMove(board, FileC) \in Range(GetLegalMoves(board))
    /\ (QueensideConditions(board) /\ BackSquareAttacked(board, FileB)) =>
         CastlingMove(board, FileC) \in Range(GetLegalMoves(board))

\* white castled queenside although the rook on b8 attacked b1
C20_Witness ==
  /\ fen = FenQueensideAttacked
  /\ out.op = "make"
  /\ KingMoveFromE(FileC)
  /\ BackSquareAttacked(out.pre, FileB)
  /\ QueensideConditions(out.pre)
  /\ Stands(board, SquareAt(FileC, Rank1), King, FALSE)

\* the pawns of the side to move that attack the en-passant target
EnPassantCapturers(b) ==
  {piece \in Range(GetPiecesForSide(b, b.blackToMove)) :
     /\ piece.Kind = Pawn
     /\ b.enPassantTarget \in (IF b.blackToMove THEN blackPawnAttackSets[piece.Square + 1]
                                                 ELSE whitePawnAttackSets[piece.Square + 1])}

\* the enemy rooks on the en-passant rank
RooksOnEnPassantRank(b) ==
  {piece \in Range(GetPiecesForSide(b, ~b.blackToMove)) :
     piece.Kind = Rook /\ Rank(piece.Square) = EnPassantRank(b)}

\* the squares of the rank strictly between two squares of it
BetweenOnRank(a, c) ==
  {sq \in Squares : /\ Rank(sq) = Rank(a)
                    /\ \/ File(a) < File(sq) /\ File(sq) < File(c)
                       \/ File(c) < File(sq) /\ File(sq) < File(a)}

\* every occupied square strictly between the king and the rook holds the
\* capturing pawn or the captured pawn
OnlyThePawnsBetween(b, rook, pawn) ==
  \A sq \in BetweenOnRank(GetKingSquare(b, b.blackToMove), rook.Square) :
    HasPiece(b, sq) =>
      sq \in {pawn.Square, SquareAt(File(b.enPassantTarget), EnPassantRank(b))}

EnPassantMove(b, pawn) == MkMove(pawn.Square, b.enPassantTarget)

\* C21: with an en-passant target and the mover's king and a capturing pawn on
\* the en-passant rank, the capture is omitted from GetLegalMoves if some
\* enemy rook on that rank has only the two pawns between it and the king,
\* whatever other enemy rooks stand on the rank; with no enemy rook on the
\* rank the capture is generated (when it does not expose the king otherwise).
C21_EnPassantPin ==
  (Generates(board) /\ board.hasEnPassantTarget) =>
    \A pawn \in EnPassantCapturers(board) :
      (/\ Rank(GetKingSquare(board, board.blackToMove)) = EnPassantRank(board)
       /\ Rank(pawn.Square) = EnPassantRank(board)) =>
        /\ (\E rook \in RooksOnEnPassantRank(board) : OnlyThePawnsBetween(board, rook, pawn))
             => EnPassantMove(board, pawn) \notin Range(GetLegalMoves(board))
        /\ (/\ RooksOnEnPassantRank(board) = {}
            /\ EnPassantMove(board, pawn) \in RuleLegalMoves(board))
             => EnPassantMove(board, pawn) \in Range(GetLegalMoves(board))

\* the same with one enemy rook on the rank at most
EnPassantPinOneRook ==
  Cardinality(RooksOnEnPassantRank(board)) <= 1 => C21_EnPassantPin

Distance(a, c) == IF a < c THEN c - a ELSE a - c

OnSameRookLine(a, c) == a /= c /\ (File(a) = File(c) \/ Rank(a) = Rank(c))

OnSameDiagonal(a, c) ==
  a /= c /\ Distance(File(a), File(c)) = Distance(Rank(a), Rank(c))

\* the squares strictly between two squares of one line
Between(a, c) ==
  IF ~(OnSameRookLine(a, c) \/ OnSameDiagonal(a, c)) THEN {}
  ELSE {sq \in Squares :
          /\ sq /= a
          /\ sq /= c
          /\ OnSameRookLine(a, c) => (OnSameRookLine(a, sq) /\ OnSameRookLine(sq, c))
          /\ OnSameDiagonal(a, c) => (OnSameDiagonal(a, sq) /\ OnSameDiagonal(sq, c))
          /\ Distance(File(a), File(sq)) + Distance(File(sq), File(c)) = Distance(File(a), File(c))
          /\ Distance(Rank(a), Rank(sq)) + Distance(Rank(sq), Rank(c)) = Distance(Rank(a), Rank(c))}

\* the enemy piece slides along the line it shares with the square
SlidesTowards(enemy, sq) ==
  \/ enemy.Kind \in {Rook, Queen} /\ OnSameRookLine(enemy.Square, sq)
  \/ enemy.Kind \in {Bishop, Queen} /\ OnSameDiagonal(enemy.Square, sq)

\* the enemy sliders that have the piece, and nothing else, between them and
\* the king of the piece's side
Pinners(b, piece) ==
  {enemy \in Range(GetPiecesForSide(b, ~piece.IsBlack)) :
     /\ SlidesTowards(enemy, GetKingSquare(b, piece.IsBlack))
     /\ piece.Square \in Between(GetKingSquare(b, piece.IsBlack), enemy.Square)
     /\ \A sq \in Between(GetKingSquare(b, piece.IsBlack), enemy.Square) \ {piece.Square} :
          ~HasPiece(b, sq)}

\* the pieces of the side to move other than the king
MoverPieces(b) ==
  {piece \in Range(GetPiecesForSide(b, b.blackToMove)) : piece.Kind /= King}

\* what C22 says of one piece, given the generator's context, the moves
\* returned and the king square
PinHandled(b, piece, ctx, legal, kingSquare) ==
  /\ IntersectsSquare(ctx.pinMask, piece.Square) <=> Pinners(b, piece) /= {}
  /\ \A enemy \in Pinners(b, piece) :
       /\ \A move \in legal :
            move.Source = piece.Square =>
              move.Destination \in Between(kingSquare, enemy.Square) \cup {enemy.Square}
       /\ piece.Kind = Knight => \A move \in legal : move.Source /= piece.Square
  /\ Pinners(b, piece) = {} =>
       \A moveSet \in {PseudoMoveSet(piece, ctx, b)} : PinFilter(piece, ctx, moveSet) = moveSet

\* C22: a non-king piece of the side to move is treated as pinned exactly
\* when it is the only piece between its king and an enemy rook or queen on a
\* shared rank or file, or an enemy bishop or queen on a shared diagonal; every
\* move GetLegalMoves returns for such a piece ends between the king and the
\* pinning piece or on the pinning piece, so a pinned knight has no moves; the
\* pin filter removes nothing from the moves of any other piece.
C22_PinHandling ==
  Generates(board) =>
    \A ctx \in {MoveGenContext(board)} :
      \A legal \in {Range(MovesIn(board, ctx))} :
        \A piece \in MoverPieces(board) :
          PinHandled(board, piece, ctx, legal, GetKingSquare(board, board.blackToMove))

\* the pinned bishop on f2 has taken the bishop on h4 that pinned it, while
\* the knight on e2, pinned by the rook on e8, had no move
C22_Witness ==
  /\ fen = FenPins
  /\ out.op = "make"
  /\ out.move = MkMove(SquareAt(FileF, Rank2), SquareAt(FileH, Rank4))
  /\ \E piece \in Range(out.pre.whitePieces) :
       /\ piece.Kind = Knight
       /\ Pinners(out.pre, piece) /= {}
       /\ \A move \in Range(GetLegalMoves(out.pre)) : move.Source /= piece.Square
  /\ \E piece \in Range(out.pre.whitePieces) :
       /\ piece.Kind = Bishop
       /\ piece.Square = out.move.Source
       /\ Pinners(out.pre, piece) /= {}

\* the enemy pieces that attack the king of the side to move
Checkers(b) ==
  {enemy \in Range(GetPiecesForSide(b, ~b.blackToMove)) :
     RuleAttacks(b, enemy, GetKingSquare(b, b.blackToMove))}

\* where a piece other than the king may go to answer the check
Answers(kingSquare, checker) ==
  {checker.Square} \cup
  (IF checker.Kind \in {Queen, Rook, Bishop} THEN Between(kingSquare, checker.Square) ELSE {})

\* C23: when exactly one enemy piece attacks the king of the side to move,
\* every move GetLegalMoves returns whose source is not the king's square ends
\* on the checking piece's square or, for a checking queen, rook or bishop, on
\* a square strictly between king and checker; for a checking knight or pawn
\* only the checker's own square is allowed.
C23_SingleCheck ==
  (Generates(board) /\ Cardinality(Checkers(board)) = 1) =>
    \A checker \in Checkers(board) :
      \A move \in Range(GetLegalMoves(board)) :
        move.Source /= GetKingSquare(board, board.blackToMove) =>
          move.Destination \in Answers(GetKingSquare(board, board.blackToMove), checker)

\* the knight has interposed on e4 against the rook on e8, the only checker
C23_Witness ==
  /\ fen = FenCheckRook
  /\ out.op = "make"
  /\ out.move = MkMove(SquareAt(FileD, Rank2), SquareAt(FileE, Rank4))
  /\ Cardinality(Checkers(out.pre)) = 1
  /\ MkMove(SquareAt(FileH, Rank5), SquareAt(FileE, Rank8)) \in Range(GetLegalMoves(out.pre))
  /\ Checkers(board) = {}

\* an enemy piece attacks the square once the mover's king is taken off the board
AttackedBehindKing(b, sq) ==
  RuleAttacked(SetEmpty(b, GetKingSquare(b, b.blackToMove)), sq, ~b.blackToMove)

\* C24: when two or more enemy pieces attack the king of the side to move,
\* every move GetLegalMoves returns starts on the king's square, none is a
\* castling move, and none takes the king to a square an enemy piece attacks
\* with the king itself removed from the blockers.
C24_DoubleCheck ==
  (Generates(board) /\ Cardinality(Checkers(board)) >= 2) =>
    /\ CastlingMoves(board, MoveGenContext(board)) = <<>>
    /\ \A move \in Range(GetLegalMoves(board)) :
         /\ move.Source = GetKingSquare(board, board.blackToMove)
         /\ Distance(File(move.Source), File(move.Destination)) <= 1
         /\ Distance(Rank(move.Source), Rank(move.Destination)) <= 1
         /\ ~AttackedBehindKing(board, move.Destination)

\* the knight went from e4 to c3: it and the rook on e8 both check the king
\* on e2, which has moves, but not to e1 behind itself on the rook's file
C24_Witness ==
  /\ fen = FenDiscovered
  /\ out.op = "make"
  /\ out.move = MkMove(SquareAt(FileE, Rank4), SquareAt(FileC, Rank3))
  /\ Cardinality(Checkers(board)) = 2
  /\ GetLegalMoves(board) /= <<>>
  /\ ~RuleAttacked(board, SquareAt(FileE, Rank1), TRUE)
  /\ AttackedBehindKing(board, SquareAt(FileE, Rank1))
  /\ MkMove(SquareAt(FileE, Rank2), SquareAt(FileE, Rank1)) \notin Range(GetLegalMoves(board))

\* the piece attacks the square by its movement pattern: a pawn one rank
\* ahead on an adjacent file, knight and king by their fixed steps, a slider
\* along its lines up to the first occupied square
PatternAttacks(b, piece, sq) ==
  LET files == Distance(File(piece.Square), File(sq))
      ranks == Distance(Rank(piece.Square), Rank(sq))
  IN CASE piece.Kind = Pawn ->
            files = 1 /\ Rank(sq) = Rank(piece.Square) + (IF piece.IsBlack THEN 1 ELSE -1)
       [] piece.Kind = Knight -> {files, ranks} = {1, 2}
       [] piece.Kind = King -> piece.Square /= sq /\ files <= 1 /\ ranks <= 1
       [] OTHER -> /\ SlidesTowards(piece, sq)
                   /\ \A between \in Between(piece.Square, sq) : ~HasPiece(b, between)

\* a piece of the other colour attacks the king of the given colour
KingAttacked(b, black) ==
  \E enemy \in Range(GetPiecesForSide(b, ~black)) :
    PatternAttacks(b, enemy, GetKingSquare(b, black))

\* C25: IsCheck() is true if and only if a piece of the side not to move
\* attacks the square of the king of the side to move; it agrees with the
\* isCheck value GetLegalMoves uses; DetectIllegalMove() gives the same answer
\* for the side that just moved and leaves blackToMove and the rest of the
\* board unchanged.
C25_IsCheck ==
  (board.fault = NoFault /\ OneKingPerSide(board)) =>
    /\ IsCheck(board) <=> KingAttacked(board, board.blackToMove)
    /\ MoveGenContext(board).isCheck <=> IsCheck(board)
    /\ DetectIllegalMove(board) <=> KingAttacked(board, ~board.blackToMove)
    /\ out.op = "DetectIllegalMove" =>
         /\ out.isCheck <=> KingAttacked(out.pre, ~out.pre.blackToMove)
         /\ board = out.pre

\* DetectIllegalMove was called after the en-passant capture that left the
\* white king attacked by the rook on a5, and answered true; black, to move,
\* is not in check
C25_Witness ==
  /\ fen = FenEnPassantTwoRooks
  /\ out.op = "DetectIllegalMove"
  /\ out.isCheck
  /\ board.blackToMove
  /\ ~IsCheck(board)
  /\ KingAttacked(board, FALSE)

PromotionRank(b) == IF b.blackToMove THEN Rank1 ELSE Rank8

\* the moves of the list with the given source and destination, in order
MovesBetween(moves, source, destination) ==
  SelectSeq(moves, LAMBDA move : move.Source = source /\ move.Destination = destination)

\* the pairs (pawn of the side to move, destination on the promotion rank
\* that is left after the generator's filters)
PromotionPairs(b, ctx) ==
  {pair \in Range(GetPiecesForSide(b, b.blackToMove)) \X Squares :
     /\ pair[1].Kind = Pawn
     /\ Rank(pair[2]) = PromotionRank(b)
     /\ pair[2] \in PieceMoveSet(pair[1], ctx, b)}

\* C26: for every pawn of the side to move and every destination on the
\* promotion rank that survives the filters GetLegalMoves returns exactly four
\* moves for that source and destination, all with IsPromotion = true,
\* promoting to Queen, Rook, Bishop, Knight in that order; every other move
\* returned has IsPromotion = false.
C26_PromotionGeneration ==
  Generates(board) =>
    \A ctx \in {MoveGenContext(board)} :
      \A moves \in {MovesIn(board, ctx)} :
        /\ \A pair \in PromotionPairs(board, ctx) :
             MovesBetween(moves, pair[1].Square, pair[2]) =
               <<[Source |-> pair[1].Square, Destination |-> pair[2],
                  PromotedPiece |-> Queen, IsPromotion |-> TRUE],
                 [Source |-> pair[1].Square, Destination |-> pair[2],
                  PromotedPiece |-> Rook, IsPromotion |-> TRUE],
                 [Source |-> pair[1].Square, Destination |-> pair[2],
                  PromotedPiece |-> Bishop, IsPromotion |-> TRUE],
                 [Source |-> pair[1].Square, Destination |-> pair[2],
                  PromotedPiece |-> Knight, IsPromotion |-> TRUE]>>
        /\ \A move \in Range(moves) :
             move.IsPromotion =>
               \E pair \in PromotionPairs(board, ctx) :
                 move.Source = pair[1].Square /\ move.Destination = pair[2]

\* the a-pawn took the knight on b8 and became a knight, one of the eight
\* promotions the position offered beside the king's moves
C26_Witness ==
  /\ fen = FenPromotion
  /\ out.op = "make"
  /\ out.move = [Source |-> SquareAt(FileA, Rank7), Destination |-> SquareAt(FileB, Rank8),
                  PromotedPiece |-> Knight, IsPromotion |-> TRUE]
  /\ Cardinality(PromotionPairs(out.pre, MoveGenContext(out.pre))) = 2
  /\ Cardinality({move \in Range(GetLegalMoves(out.pre)) : move.IsPromotion}) = 8
  /\ \E move \in Range(GetLegalMoves(out.pre)) : ~move.IsPromotion
  /\ Stands(board, SquareAt(FileB, Rank8), Knight, FALSE)

\* ------------------------------------------------------------------------
\* C27: capture-only generation
\* ------------------------------------------------------------------------
\* the destination of the move holds a piece of the side not to move
LandsOnEnemy(b, move) ==
  \E black \in {~b.blackToMove} : \E kind \in {King, Queen, Bishop, Knight, Rook, Pawn} :
    Stands(b, move.Destination, kind, black)

Occurrences(moves, move) == Cardinality({i \in 1..Len(moves) : moves[i] = move})

\* the moves of part appear in whole in the order they have in part
InOrderOf(part, whole) ==
  \A i, j \in 1..Len(part) :
    i < j => \E p, q \in 1..Len(whole) : p < q /\ whole[p] = part[i] /\ whole[q] = part[j]

RECURSIVE negamax(_, _)
RECURSIVE NegamaxOver(_, _, _, _, _)
RECURSIVE quiescence(_, _)
RECURSIVE QuiescenceOver(_, _, _, _, _)

Undefined == [eval |-> 0, ok |-> FALSE]

Defined(eval) == [eval |-> eval, ok |-> TRUE]

Negated(a) == [a EXCEPT !.eval = -a.eval]

Greater(a, c) ==
  IF ~a.ok THEN a ELSE IF ~c.ok THEN c ELSE IF c.eval > a.eval THEN c ELSE a

\* max(best, max over legalCaptures[index..] of -q(k - 1))
QuiescenceOver(k, b, legalCaptures, index, best) ==
  IF index > Len(legalCaptures) \/ ~best.ok THEN best
  ELSE QuiescenceOver(k, b, legalCaptures, index + 1,
         Greater(best, Negated(quiescence(k - 1, MakeMove(b, legalCaptures[index]).board))))

QuiescenceOf(k, b, legalCaptures) ==
  IF Len(legalCaptures) = 0 \/ k <= 0 THEN Defined(evaluate(b))
  ELSE QuiescenceOver(k, b, legalCaptures, 1, Defined(evaluate(b)))

\* q(k)
quiescence(k, b) ==
  IF b.fault /= NoFault \/ GetLegalMovesPanics(b) THEN Undefined
  ELSE QuiescenceOf(k, b, GetLegalMovesFlag(b, TRUE))

\* max(best, max over moves[index..] of -negamax(d - 1))
NegamaxOver(d, b, moves, index, best) ==
  IF index > Len(moves) \/ ~best.ok THEN best
  ELSE NegamaxOver(d, b, moves, index + 1,
         Greater(best, Negated(negamax(d - 1, MakeMove(b, moves[index]).board))))

NegamaxOf(d, b, moves) ==
  IF Len(moves) = 0 THEN Defined(evaluate(b))
  ELSE NegamaxOver(d, b, moves, 2,
         Negated(negamax(d - 1, MakeMove(b, moves[1]).board)))

\* negamax(d)
negamax(d, b) ==
  IF b.fault /= NoFault THEN Undefined
  ELSE IF d <= 0 THEN quiescence(quiescenceSearchDepth, b)
  ELSE IF GetLegalMovesPanics(b) THEN Undefined
  ELSE NegamaxOf(d, b, GetLegalMovesFlag(b, FALSE))

\* C28: whenever search(d, board, -inf, +inf) has returned, the evaluation it
\* returned is the value negamax(d) of the recursion without pruning on the
\* board it was called on, for every depth d >= 0.
C28_PruningKeepsRootValue ==
  (/\ out.op \in {"search", "think"}
   /\ out.alpha = -INF
   /\ out.beta = INF
   /\ board.fault = NoFault)
  => negamax(out.depth, out.pre) = Defined(out.eval)

\* search(2, board, -inf, +inf) has returned a finite value; a root move tried
\* after the returned one was answered inside the window narrowed by that
\* value, and the search of the reply returned the bound instead of the value
\* of the reply without pruning
C28_Witness ==
  /\ out.op = "search"
  /\ out.depth = 2
  /\ out.alpha = -INF
  /\ out.beta = INF
  /\ board.fault = NoFault
  /\ out.eval \notin {-INF, INF}
  /\ negamax(out.depth, out.pre) = Defined(out.eval)
  /\ \E moves \in {GetLegalMovesFlag(out.pre, FALSE)} :
       \E i, j \in 1..Len(moves) :
         /\ moves[i] = out.move
         /\ i < j
         /\ \E reply \in {MakeMove(out.pre, moves[j]).board} :
              /\ search(1, reply, -INF, -out.eval).bestEval = -out.eval
              /\ negamax(1, reply) = Defined(negamax(1, reply).eval)
              /\ negamax(1, reply).eval > -out.eval

\* ------------------------------------------------------------------------
\* C29: the window and the returned evaluation
\* ------------------------------------------------------------------------
\* search has returned from a call with alpha < beta
SearchReturned ==
  /\ out.op \in {"search", "think"}
  /\ board.fault = NoFault
  /\ out.alpha < out.beta

\* C29 as claimed: every evaluation search(depth, board, alpha, beta) returns
\* for alpha < beta, at depth 0 the one quiescenceSearch returns, lies in the
\* closed interval [alpha, beta].
C29_FailHardWindow ==
  SearchReturned => out.alpha <= out.eval /\ out.eval <= out.beta

\* C29 amended: the evaluation lies in [alpha, beta] when it comes out of the
\* move loop or the capture loop (cutoff or exhausted list).  Without a legal
\* move search returns evaluate(board) whatever the window; quiescenceSearch
\* without a legal capture returns beta when evaluate(board) >= beta and
\* evaluate(board) otherwise, which may lie below alpha.
C29_WindowBoundInLoops ==
  SearchReturned =>
    IF out.depth >= 1
      THEN IF Len(GetLegalMovesFlag(out.pre, FALSE)) = 0
             THEN out.eval = evaluate(out.pre)
             ELSE out.alpha <= out.eval /\ out.eval <= out.beta
      ELSE IF Len(GetLegalMovesFlag(out.pre, TRUE)) = 0
             THEN out.eval = IF evaluate(out.pre) >= out.beta THEN out.beta
                             ELSE evaluate(out.pre)
             ELSE out.alpha <= out.eval /\ out.eval <= out.beta

\* search(0, board, -100, 100) on a board without captures worth less than
\* -100 to the side to move has returned that value, below alpha
C29_Witness ==
  /\ SearchReturned
  /\ out.depth = 0
  /\ out.alpha = -100
  /\ out.beta = 100
  /\ Len(GetLegalMovesFlag(out.pre, TRUE)) = 0
  /\ out.eval = evaluate(out.pre)
  /\ out.eval < out.alpha

\* ------------------------------------------------------------------------
\* C30: every generated move is applicable
\* ------------------------------------------------------------------------
\* a piece of the given side stands on the square
HoldsPieceOf(b, sq, black) == HasPiece(b, sq) /\ GetPiece(b, sq)[1].IsBlack = black

\* C30: on every board loaded with one king per side, or reached from one by
\* generated moves, each move GetLegalMoves returns starts on a square holding
\* a piece of the side to move and ends on a square not holding one, so that
\* MakeMove of it does not abort; and a castling move is appended only when
\* the mover's king stands on the E-file square of its back rank.
C30_GeneratedMovesApplicable ==
  Generates(board) =>
    \A ctx \in {MoveGenContext(board)} :
      /\ \A move \in Range(MovesIn(board, ctx)) :
           /\ HoldsPieceOf(board, move.Source, board.blackToMove)
           /\ ~HoldsPieceOf(board, move.Destination, board.blackToMove)
           /\ MakeMove(board, move).board.fault = NoFault
      /\ Len(CastlingMoves(board, ctx)) > 0 =>
           Stands(board, BackSquare(board, FileE), King, board.blackToMove)

====
